---------------------------- MODULE Spec2Model ----------------------------
(***************************************************************************)
(* A model of rss_article_fetcher: the SQLite-backed deduplication store   *)
(* (src/src/storage.py), the RPM / daily rate limiter and the summarizer   *)
(* that drives it (src/src/summarizer.py), the length-aware batch packer   *)
(* (src/src/wecom_pusher.py) and the run() pipeline (src/main.py).         *)
(*                                                                         *)
(* Conventions.  A string is modelled by its length (a natural number), so *)
(* two strings of different length are different values and len(s) is the  *)
(* value itself; "" is 0.  A URL is a small integer and its hash is        *)
(* _hash_url(url).  Time is in seconds; the calendar date of an instant t  *)
(* is t \div SECONDS_PER_DAY.                                              *)
(***************************************************************************)
EXTENDS Integers, Sequences, FiniteSets, TLC

VARIABLES
    \* ---- WeComPusher._create_batches ----
    articles,        \* the list handed to _create_batches
    batches,         \* the list of batches it returned
    packed,          \* TRUE once _create_batches has returned
    \* ---- the clock ----
    now,             \* time.time() / datetime.now(), in seconds
    \* ---- Storage ----
    db,              \* rows of table articles in processed_articles.db
    processed_urls,  \* Storage.processed_urls, the in-memory cache
    st_op,           \* the last Storage operation and what it returned
    recorded,        \* url hashes whose record returned True, row not removed since
    \* ---- RateLimiter ----
    request_times,   \* RateLimiter.request_times
    daily_count,     \* RateLimiter.daily_count
    quota_file,      \* api_quota.json: [date, count]
    rl_op,           \* the last RateLimiter operation and what it returned
    recorded_on,     \* date -> number of record_request() calls made on that date
    quota_fault,     \* "load" / "save" after the limiter's last access to the
                     \* quota file failed, "none" otherwise (history)
    \* ---- Summarizer.summarize_articles ----
    sm,              \* the summarizer's control state
    issued,          \* instants at which generate_content was called (history)
    \* ---- RSSArticleFetcher.run ----
    run,             \* the pipeline's control state
    times_processed, \* per link, how often it went through steps 5-6 (history)
    \* ---- WeComPusher.push_articles ----
    push,            \* the pusher's control state
    sent,            \* the messages posted to the webhook: [n articles, len] (history)
    accepted,        \* links of the articles in acknowledged messages (history)
    \* ---- ContentFetcher.fetch_articles_content ----
    cf,              \* the tasks of the current call and what was collected
    \* ---- a second RateLimiter over the same quota file ----
    peer,            \* request_times and daily_count of the other instance
    \* ---- RSSArticleFetcher.run_scheduled ----
    sched            \* last_run.json, the job's position and its time ranges

vars == <<articles, batches, packed, now, db, processed_urls, st_op, recorded,
          request_times, daily_count, quota_file, rl_op, recorded_on,
          quota_fault,
          sm, issued, run, times_processed, push, sent, accepted,
          cf, peer, sched>>

batchVars   == <<articles, batches, packed>>
storeVars   == <<db, processed_urls, st_op, recorded>>
limiterVars == <<request_times, daily_count, quota_file, rl_op, recorded_on,
                 quota_fault>>
summVars    == <<sm, issued>>
runVars     == <<run, times_processed>>
pushVars    == <<push, sent, accepted>>
fetchVars   == <<cf>>
peerVars    == <<peer>>
schedVars   == <<sched>>

-----------------------------------------------------------------------------
(* Program constants *)

MAX_CONTENT_LENGTH == 4096
HEADER_RESERVE     == 150
MAX_SUMMARY_LENGTH == 300
WINDOW             == 60
SECONDS_PER_DAY    == 86400

(* Bounds of the model *)

MaxArticles == 4      \* longest list handed to _create_batches
MaxUniform  == 30     \* longest list of one article repeated

-----------------------------------------------------------------------------
(* Helpers *)

Min(a, b) == IF a < b THEN a ELSE b
Max(a, b) == IF a > b THEN a ELSE b

RECURSIVE Flatten(_)
Flatten(ss) == IF ss = <<>> THEN <<>> ELSE Head(ss) \o Flatten(Tail(ss))

SeqsUpTo(S, n) == UNION {[1..k -> S] : k \in 0..n}

-----------------------------------------------------------------------------
(* rss_fetcher.Article.  len(link) is LinkLen(link). *)

LinkLen(link) == 30

Article(link, title, summary, summary_zh, published) ==
    [title |-> title, link |-> link, published |-> published,
     description |-> 60, source |-> 10, source_url |-> 40, content |-> 0,
     summary |-> summary, summary_zh |-> summary_zh, title_zh |-> 0]

-----------------------------------------------------------------------------
(* WeComPusher: the batch packer *)

\* Python's `a or b` on strings: the first non-empty one
StrOr(a, b) == IF a # 0 THEN a ELSE b

\* mutant: the estimate leaves out the formatting overhead
_estimate_article_length_bare(article) ==
    LET summary_text == StrOr(article.summary_zh, article.summary)
    IN  article.title + article.source + LinkLen(article.link) * 2
        + Min(summary_text, MAX_SUMMARY_LENGTH)

_estimate_article_length(article) ==
    LET summary_text == StrOr(article.summary_zh, article.summary)
    IN  (article.title + 20)
        + (article.source + 20)
        + (LinkLen(article.link) * 2 + 20)
        + (IF summary_text # 0
              THEN Min(summary_text, MAX_SUMMARY_LENGTH) + 30
              ELSE 0)
        + 10

\* the for-loop of _create_batches from item i on, and the final append
RECURSIVE create_batches_loop(_, _, _, _, _)
create_batches_loop(arts, i, bs, current_batch, current_length) ==
    IF i > Len(arts)
    THEN IF current_batch # <<>> THEN Append(bs, current_batch) ELSE bs
    ELSE LET article        == arts[i]
             article_length == _estimate_article_length(article)
         IN  IF current_batch # <<>>
                /\ (current_length + article_length) > MAX_CONTENT_LENGTH
             THEN create_batches_loop(arts, i + 1, Append(bs, current_batch),
                                      <<article>>, HEADER_RESERVE + article_length)
             ELSE create_batches_loop(arts, i + 1, bs,
                                      Append(current_batch, article),
                                      current_length + article_length)

\* mutant: the batch still open when the loop ends is forgotten
RECURSIVE create_batches_loop_nolast(_, _, _, _, _)
create_batches_loop_nolast(arts, i, bs, current_batch, current_length) ==
    IF i > Len(arts)
    THEN bs
    ELSE LET article        == arts[i]
             article_length == _estimate_article_length(article)
         IN  IF current_batch # <<>>
                /\ (current_length + article_length) > MAX_CONTENT_LENGTH
             THEN create_batches_loop_nolast(arts, i + 1, Append(bs, current_batch),
                                      <<article>>, HEADER_RESERVE + article_length)
             ELSE create_batches_loop_nolast(arts, i + 1, bs,
                                      Append(current_batch, article),
                                      current_length + article_length)

\* mutant: the running total does not start from the header reserve
RECURSIVE create_batches_loop_nohdr(_, _, _, _, _)
create_batches_loop_nohdr(arts, i, bs, current_batch, current_length) ==
    IF i > Len(arts)
    THEN IF current_batch # <<>> THEN Append(bs, current_batch) ELSE bs
    ELSE LET article        == arts[i]
             article_length == _estimate_article_length(article)
         IN  IF current_batch # <<>>
                /\ (current_length + article_length) > MAX_CONTENT_LENGTH
             THEN create_batches_loop_nohdr(arts, i + 1, Append(bs, current_batch),
                                      <<article>>, article_length)
             ELSE create_batches_loop_nohdr(arts, i + 1, bs,
                                      Append(current_batch, article),
                                      current_length + article_length)

\* mutant: a batch is closed as soon as the next article would reach the limit
RECURSIVE create_batches_loop_strict(_, _, _, _, _)
create_batches_loop_strict(arts, i, bs, current_batch, current_length) ==
    IF i > Len(arts)
    THEN IF current_batch # <<>> THEN Append(bs, current_batch) ELSE bs
    ELSE LET article        == arts[i]
             article_length == _estimate_article_length(article)
         IN  IF current_batch # <<>>
                /\ (current_length + article_length) >= MAX_CONTENT_LENGTH
             THEN create_batches_loop_strict(arts, i + 1, Append(bs, current_batch),
                                      <<article>>, HEADER_RESERVE + article_length)
             ELSE create_batches_loop_strict(arts, i + 1, bs,
                                      Append(current_batch, article),
                                      current_length + article_length)

_create_batches_strict(arts) ==
    create_batches_loop_strict(arts, 1, <<>>, <<>>, HEADER_RESERVE)

_create_batches_nolast(arts) ==
    create_batches_loop_nolast(arts, 1, <<>>, <<>>, HEADER_RESERVE)

_create_batches_nohdr(arts) ==
    create_batches_loop_nohdr(arts, 1, <<>>, <<>>, 0)

_create_batches(arts) ==
    create_batches_loop(arts, 1, <<>>, <<>>, HEADER_RESERVE)

\* The articles the packer is tried on, with their estimates: two of 1973 fill a
\* message exactly, 5040 is over the limit alone.
BatchPool ==
    { Article(1, 100, 130, 0, 0),      \* 400
      Article(1, 100, 500, 40, 0),     \* 310: summary_zh is preferred
      Article(2, 1833, 0, 0, 0),       \* 1973
      Article(2, 1770, 500, 0, 0),     \* 2240: summary capped at 300
      Article(3, 4900, 0, 0, 0),       \* 5040
      Article(3, 5, 0, 0, 0) }         \* 145

\* lists of one article repeated, long enough to fill several messages
UniformLists == {[i \in 1..n |-> a] : a \in BatchPool, n \in 0..MaxUniform}

InitBatch ==
    /\ articles \in SeqsUpTo(BatchPool, MaxArticles) \cup UniformLists
    /\ batches = <<>>
    /\ packed = FALSE

IdleBatch ==
    /\ articles = <<>>
    /\ batches = <<>>
    /\ packed = FALSE

CreateBatches ==
    /\ ~packed
    /\ batches' = _create_batches(articles)
    /\ packed' = TRUE
    /\ UNCHANGED articles


-----------------------------------------------------------------------------
(* The clock.  Seconds pass in steps of TickSizes while the time of day is  *)
(* below MaxOffset; NextDay jumps to the next midnight.                      *)

MaxDay    == 1        \* the last calendar date the clock reaches
MaxOffset == 70       \* the clock ticks while fewer seconds than this have passed today

TickSizes == {30, 61}

\* datetime.now().strftime('%Y-%m-%d')
DateOf(t) == t \div SECONDS_PER_DAY
Today     == DateOf(now)
Dates     == 0..MaxDay

Tick ==
    /\ \E dt \in TickSizes :
          /\ (now % SECONDS_PER_DAY) + dt <= MaxOffset
          /\ now' = now + dt

NextDay ==
    /\ Today < MaxDay
    /\ now' = (Today + 1) * SECONDS_PER_DAY

-----------------------------------------------------------------------------
(* Storage: table articles and the in-memory cache.  The io argument of an  *)
(* operation is TRUE when its sqlite3 calls succeed and FALSE when one of    *)
(* them raises (the except branch).                                          *)

NUrls == 2            \* distinct article URLs
Urls  == 1..NUrls

\* hashlib.sha256(url).hexdigest(): injective, and not the URL itself
_hash_url(url) == 1000 + url

\* datetime.isoformat(): 'YYYY-MM-DD' 'T' 'HH:MM:SS'
IsoFormat(t) == <<t \div SECONDS_PER_DAY, "T", t % SECONDS_PER_DAY>>

\* strftime('%Y-%m-%d %H:%M:%S'), the form push_only gives to its bounds
StrfTime(t) == <<t \div SECONDS_PER_DAY, " ", t % SECONDS_PER_DAY>>

\* dateutil's parse of a stored published_at
ParseIso(str) == str[1] * SECONDS_PER_DAY + str[3]

\* SQLite compares TEXT values byte by byte: the date, then the separator
\* (' ' is 0x20, 'T' is 0x54), then the time of day
SepOrd(c) == IF c = "T" THEN 84 ELSE 32

TextLeq(a, b) ==
    \/ a[1] < b[1]
    \/ a[1] = b[1] /\ SepOrd(a[2]) < SepOrd(b[2])
    \/ a[1] = b[1] /\ a[2] = b[2] /\ a[3] <= b[3]

\* the row INSERTed for an article at instant t (processed_at DEFAULT CURRENT_TIMESTAMP)
RowOf(article, t) ==
    [url |-> article.link, url_hash |-> _hash_url(article.link),
     title |-> article.title, title_zh |-> article.title_zh,
     source |-> article.source, source_url |-> article.source_url,
     description |-> article.description, content |-> article.content,
     summary |-> article.summary, summary_zh |-> article.summary_zh,
     processed_at |-> t, published_at |-> IsoFormat(article.published)]

\* mutant: INSERT OR REPLACE, the conflicting row is overwritten
InsertOrReplace(d, row) ==
    {r \in d : r.url # row.url /\ r.url_hash # row.url_hash} \cup {row}

\* INSERT OR IGNORE under UNIQUE(url), UNIQUE(url_hash)
InsertOrIgnore(d, row) ==
    IF \E r \in d : r.url = row.url \/ r.url_hash = row.url_hash
    THEN d
    ELSE d \cup {row}

\* mutant: the cache is filled from column url instead of url_hash
_load_processed_urls_urlcol(d, io) ==
    IF io THEN {r.url : r \in d} ELSE {}

\* SELECT url_hash FROM articles; on failure the cache is the empty set
_load_processed_urls(d, io) ==
    IF io THEN {r.url_hash : r \in d} ELSE {}

is_processed(url, cache) == _hash_url(url) \in cache

\* mutant: the cache is updated before the INSERT is tried
mark_as_processed_cachefirst(article, d, cache, t, io) ==
    [db    |-> IF io THEN InsertOrIgnore(d, RowOf(article, t)) ELSE d,
     cache |-> cache \cup {_hash_url(article.link)},
     ret   |-> io]

\* the value mark_as_processed leaves: [db, cache, ret]
mark_as_processed(article, d, cache, t, io) ==
    IF io
    THEN [db    |-> InsertOrIgnore(d, RowOf(article, t)),
          cache |-> cache \cup {_hash_url(article.link)},
          ret   |-> TRUE]
    ELSE [db |-> d, cache |-> cache, ret |-> FALSE]

\* mutant: the test of is_processed is inverted
RECURSIVE filter_loop_inverted(_, _, _, _)
filter_loop_inverted(arts, i, cache, unprocessed) ==
    IF i > Len(arts) THEN unprocessed
    ELSE filter_loop_inverted(arts, i + 1, cache,
            IF is_processed(arts[i].link, cache)
            THEN Append(unprocessed, arts[i]) ELSE unprocessed)

filter_unprocessed_inverted(arts, force, cache) ==
    IF force THEN arts ELSE filter_loop_inverted(arts, 1, cache, <<>>)

\* the for-loop of filter_unprocessed
RECURSIVE filter_loop(_, _, _, _)
filter_loop(arts, i, cache, unprocessed) ==
    IF i > Len(arts) THEN unprocessed
    ELSE filter_loop(arts, i + 1, cache,
            IF ~is_processed(arts[i].link, cache)
            THEN Append(unprocessed, arts[i]) ELSE unprocessed)

filter_unprocessed(arts, force, cache) ==
    IF force THEN arts ELSE filter_loop(arts, 1, cache, <<>>)

\* the Article built from a row of the SELECT
ArticleOfRow(r) ==
    [title |-> r.title, link |-> r.url, published |-> ParseIso(r.published_at),
     description |-> r.description, source |-> r.source,
     source_url |-> r.source_url, content |-> r.content,
     summary |-> r.summary, summary_zh |-> r.summary_zh, title_zh |-> r.title_zh]

\* WHERE published_at >= ? AND published_at <= ?
RowsInRange(d, start_time, end_time) ==
    {r \in d : TextLeq(start_time, r.published_at)
                /\ TextLeq(r.published_at, end_time)}

\* get_articles_by_time_range: the lists it can return, the rows of the WHERE
\* clause in an order that ORDER BY published_at DESC allows; [] on failure
get_articles_by_time_range(d, start_time, end_time, io) ==
    IF ~io THEN {<<>>}
    ELSE LET rows == RowsInRange(d, start_time, end_time)
             n    == Cardinality(rows)
             ords == {q \in [1..n -> rows] :
                        /\ \A i, j \in 1..n : q[i] = q[j] => i = j
                        /\ \A i, j \in 1..n :
                              i < j => TextLeq(q[j].published_at,
                                               q[i].published_at)}
         IN  {[i \in 1..n |-> ArticleOfRow(q[i])] : q \in ords}

\* DELETE FROM articles WHERE processed_at < datetime('now', '-<days> days')
OldRows(d, days, t) == {r \in d : r.processed_at < t - days * SECONDS_PER_DAY}

\* when the article at URL u was published: one article a day, 30 seconds
\* after midnight
PublishedOf(u) == (u - 1) * SECONDS_PER_DAY + 30

\* The articles the store is tried on: every URL with two different summaries
StorePool == {Article(u, 100, s, 0, PublishedOf(u)) : u \in Urls, s \in {130, 500}}

\* the bounds push_only asks for: midnight and 61 seconds after it, each day
QueryTimes == {d * SECONDS_PER_DAY + o : d \in Dates, o \in {0, 61}}

MaxFilter == 2        \* longest list handed to filter_unprocessed
\* the lists handed to filter_unprocessed: a URL may occur twice in one list
FilterPool   == {Article(u, 100, 130, 0, PublishedOf(u)) : u \in Urls}
FilterInputs == SeqsUpTo(FilterPool, MaxFilter)
CleanupDays  == {0, 1}

\* st_op: the operation, its arguments (article, url, arts, force, days,
\* start_time, end_time), its result (ret for a bool, out for a list, n for a
\* count) and whether it raised
NoArticle == Article(0, 0, 0, 0, 0)

NoOp == [op |-> "none", article |-> NoArticle, url |-> 0, arts |-> <<>>,
         force |-> FALSE, days |-> 0, start_time |-> 0, end_time |-> 0,
         ret |-> FALSE, out |-> <<>>, n |-> 0, raised |-> FALSE]

InitStore ==
    /\ db = {}
    /\ processed_urls = {}
    /\ st_op = [NoOp EXCEPT !.op = "init"]
    /\ recorded = {}

\* mutant: a failure to initialise the database is logged and swallowed
_init_database_swallow(io) == [raised |-> FALSE]

\* _init_database: the except branch logs and re-raises
_init_database(io) == [raised |-> ~io]

\* Storage(data_dir): _init_database, then _load_processed_urls; when
\* _init_database raises there is no Storage object
StorageInitIO(io_init, io_load) ==
    LET i == _init_database(io_init)
    IN  /\ processed_urls' = IF i.raised THEN {}
                             ELSE _load_processed_urls(db, io_load)
        /\ st_op' = [NoOp EXCEPT !.op = "init", !.raised = i.raised]
        /\ UNCHANGED <<db, recorded>>

\* the same with a working sqlite3
StorageInit == StorageInitIO(TRUE, TRUE)

MarkAsProcessedIO(article, io) ==
    LET r == mark_as_processed(article, db, processed_urls, now, io)
    IN  /\ db' = r.db
        /\ processed_urls' = r.cache
        /\ st_op' = [NoOp EXCEPT !.op = "mark_as_processed",
                                  !.article = article, !.ret = r.ret]
        /\ recorded' = IF r.ret THEN recorded \cup {_hash_url(article.link)}
                                ELSE recorded

MarkAsProcessed(article) == MarkAsProcessedIO(article, TRUE)

IsProcessed(url) ==
    /\ st_op' = [NoOp EXCEPT !.op = "is_processed", !.url = url,
                              !.ret = is_processed(url, processed_urls)]
    /\ UNCHANGED <<db, processed_urls, recorded>>

FilterUnprocessed(arts, force) ==
    /\ st_op' = [NoOp EXCEPT !.op = "filter_unprocessed", !.arts = arts,
                              !.force = force,
                              !.out = filter_unprocessed(arts, force, processed_urls)]
    /\ UNCHANGED <<db, processed_urls, recorded>>

\* get_articles_by_time_range(start_str, end_str) as push_only calls it
GetArticlesByTimeRangeIO(start_time, end_time, io) ==
    /\ \E out \in get_articles_by_time_range(db, StrfTime(start_time),
                                              StrfTime(end_time), io) :
          st_op' = [NoOp EXCEPT !.op = "get_articles_by_time_range",
                                !.start_time = start_time,
                                !.end_time = end_time, !.out = out]
    /\ UNCHANGED <<db, processed_urls, recorded>>

GetArticlesByTimeRange(start_time, end_time) ==
    GetArticlesByTimeRangeIO(start_time, end_time, TRUE)

\* mutant: the cache is not reloaded after the DELETE
cleanup_old_records_noreload(d, cache, days, t, io, io_load) ==
    IF ~io THEN [db |-> d, cache |-> cache, n |-> 0]
    ELSE LET deleted == OldRows(d, days, t)
         IN  [db |-> d \ deleted, cache |-> cache, n |-> Cardinality(deleted)]

\* cleanup_old_records: [db, cache, n]; io_load is FALSE when the reload of the
\* cache fails
cleanup_old_records(d, cache, days, t, io, io_load) ==
    IF ~io THEN [db |-> d, cache |-> cache, n |-> 0]
    ELSE LET deleted == OldRows(d, days, t)
         IN  [db    |-> d \ deleted,
              cache |-> _load_processed_urls(d \ deleted, io_load),
              n     |-> Cardinality(deleted)]

CleanupOldRecordsIO(days, io, io_load) ==
    LET c == cleanup_old_records(db, processed_urls, days, now, io, io_load)
    IN  /\ db' = c.db
        /\ processed_urls' = c.cache
        /\ st_op' = [NoOp EXCEPT !.op = "cleanup_old_records", !.days = days,
                                  !.n = c.n]
        /\ recorded' = recorded \ {r.url_hash : r \in db \ c.db}

CleanupOldRecords(days) == CleanupOldRecordsIO(days, TRUE, TRUE)

\* mutant: the cache is cleared before the DELETE is tried
reset_database_cachefirst(d, cache, io) ==
    IF io THEN [db |-> {}, cache |-> {}, ret |-> TRUE]
    ELSE [db |-> d, cache |-> {}, ret |-> FALSE]

\* reset_database: [db, cache, ret]; the cache is cleared after the commit
reset_database(d, cache, io) ==
    IF io THEN [db |-> {}, cache |-> {}, ret |-> TRUE]
    ELSE [db |-> d, cache |-> cache, ret |-> FALSE]

ResetDatabaseIO(io) ==
    LET r == reset_database(db, processed_urls, io)
    IN  /\ db' = r.db
        /\ processed_urls' = r.cache
        /\ st_op' = [NoOp EXCEPT !.op = "reset_database", !.ret = r.ret]
        /\ recorded' = IF r.ret THEN {} ELSE recorded

ResetDatabase == ResetDatabaseIO(TRUE)


-----------------------------------------------------------------------------
(* RateLimiter.  api_quota.json is [exists, date, count]; the io argument   *)
(* of _load_quota / _save_quota is TRUE when the file operation succeeds.    *)

max_rpm   == 2        \* requests per minute allowed (config max_rpm)
max_daily == 3        \* requests per day allowed (config max_daily_requests)

NoQuotaFile == [exists |-> FALSE, date |-> 0, count |-> 0]

\* mutant: the quota file is written before the counter is incremented
_save_quota_stale(file, count, t, io) ==
    IF io THEN [exists |-> TRUE, date |-> DateOf(t), count |-> Max(0, count - 1)]
          ELSE file

\* _save_quota: {'date': today, 'count': daily_count}; a failure is logged only
_save_quota(file, count, t, io) ==
    IF io THEN [exists |-> TRUE, date |-> DateOf(t), count |-> count]
          ELSE file

\* mutant: a quota file that cannot be read counts as a used-up day
_load_quota_closed(file, t, io, io_w) ==
    IF ~io THEN [daily_count |-> max_daily, file |-> file, raised |-> FALSE]
    ELSE IF file.exists /\ file.date = DateOf(t)
         THEN [daily_count |-> file.count, file |-> file, raised |-> FALSE]
         ELSE [daily_count |-> 0, file |-> _save_quota(file, 0, t, io_w),
               raised |-> FALSE]

\* _load_quota: [daily_count, file, raised] after it; io is FALSE when reading
\* or parsing the file raises, io_w when the write of a fresh record fails
_load_quota(file, t, io, io_w) ==
    IF ~io THEN [daily_count |-> 0, file |-> file, raised |-> FALSE]
    ELSE IF file.exists
         THEN IF file.date = DateOf(t)
              THEN [daily_count |-> file.count, file |-> file, raised |-> FALSE]
              ELSE [daily_count |-> 0, file |-> _save_quota(file, 0, t, io_w),
                    raised |-> FALSE]
         ELSE [daily_count |-> 0, file |-> _save_quota(file, 0, t, io_w),
               raised |-> FALSE]

\* [t for t in request_times if now - t < 60]
InWindow(times, t) == SelectSeq(times, LAMBDA x : t - x < WINDOW)

\* mutant: an instant exactly 60 seconds old still counts
can_make_request_inclusive(count, times, t) ==
    IF count >= max_daily
    THEN [ret |-> FALSE, request_times |-> times]
    ELSE LET pruned == SelectSeq(times, LAMBDA x : t - x <= WINDOW)
         IN  [ret |-> Len(pruned) < max_rpm, request_times |-> pruned]

\* mutant: a request is allowed while the window holds max_rpm instants
can_make_request_lax(count, times, t) ==
    IF count >= max_daily
    THEN [ret |-> FALSE, request_times |-> times]
    ELSE LET pruned == InWindow(times, t)
         IN  [ret |-> Len(pruned) <= max_rpm, request_times |-> pruned]

\* can_make_request: [ret, request_times]; the list is pruned only when the
\* daily test passes
can_make_request(count, times, t) ==
    IF count >= max_daily
    THEN [ret |-> FALSE, request_times |-> times]
    ELSE LET pruned == InWindow(times, t)
         IN  [ret |-> Len(pruned) < max_rpm, request_times |-> pruned]

SeqMin(s) == CHOOSE x \in {s[i] : i \in 1..Len(s)} :
                 \A j \in 1..Len(s) : x <= s[j]

\* mutant: the window is waited for before the daily count is looked at
RECURSIVE wait_if_needed_rpmfirst(_, _, _, _)
wait_if_needed_rpmfirst(count, times, t, sleeps) ==
    LET pruned == InWindow(times, t)
    IN  IF Len(pruned) >= max_rpm
        THEN LET wait_time == WINDOW - (t - SeqMin(pruned)) + 1
             IN  wait_if_needed_rpmfirst(count, pruned, t + wait_time,
                                         Append(sleeps, wait_time))
        ELSE [now |-> t, request_times |-> pruned, sleeps |-> sleeps]

\* mutant: it returns at once, without sleeping
wait_if_needed_nosleep(count, times, t, sleeps) ==
    LET c == can_make_request(count, times, t)
    IN  [now |-> t, request_times |-> c.request_times, sleeps |-> sleeps]

\* mutant: the sleep has no safety margin
RECURSIVE wait_if_needed_nomargin(_, _, _, _)
wait_if_needed_nomargin(count, times, t, sleeps) ==
    LET c == can_make_request(count, times, t)
    IN  IF c.ret \/ count >= max_daily
        THEN [now |-> t, request_times |-> c.request_times, sleeps |-> sleeps]
        ELSE LET pruned    == InWindow(c.request_times, t)
                 wait_time == WINDOW - (t - SeqMin(pruned))
             IN  wait_if_needed_nomargin(count, pruned, t + wait_time,
                                         Append(sleeps, wait_time))

\* wait_if_needed from instant t: [now, request_times, sleeps] when it returns,
\* sleeps being the durations passed to time.sleep
RECURSIVE wait_if_needed(_, _, _, _)
wait_if_needed(count, times, t, sleeps) ==
    LET c == can_make_request(count, times, t)
    IN  IF c.ret
        THEN [now |-> t, request_times |-> c.request_times, sleeps |-> sleeps]
        ELSE IF count >= max_daily
        THEN [now |-> t, request_times |-> c.request_times, sleeps |-> sleeps]
        ELSE LET pruned == InWindow(c.request_times, t)
             IN  IF Len(pruned) >= max_rpm
                 THEN LET oldest    == SeqMin(pruned)
                          wait_time == WINDOW - (t - oldest) + 1
                      IN  wait_if_needed(count, pruned, t + wait_time,
                                         Append(sleeps, wait_time))
                 ELSE wait_if_needed(count, pruned, t, sleeps)

get_remaining_quota(count) == Max(0, max_daily - count)

NoRl == [op |-> "none", ret |-> FALSE, sleeps |-> <<>>, quota |-> 0,
         raised |-> FALSE]

ZeroCounts == [d \in Dates |-> 0]

\* after RateLimiter(...) in a data directory that has no quota file yet
InitLimiter ==
    /\ request_times = <<>>
    /\ daily_count = 0
    /\ quota_file = _save_quota(NoQuotaFile, 0, now, TRUE)
    /\ rl_op = [NoRl EXCEPT !.op = "init"]
    /\ recorded_on = ZeroCounts
    /\ quota_fault = "none"

\* RateLimiter(...): a new process, or a new instance in the same one
RateLimiterInitIO(io, io_w) ==
    LET l == _load_quota(quota_file, now, io, io_w)
    IN  /\ request_times' = <<>>
        /\ daily_count' = l.daily_count
        /\ quota_file' = l.file
        /\ rl_op' = [NoRl EXCEPT !.op = "init", !.raised = l.raised]
        /\ quota_fault' = IF ~io THEN "load"
                          ELSE IF l.file # quota_file /\ ~io_w THEN "save"
                          ELSE "none"
        /\ UNCHANGED recorded_on

\* the same with a quota file that can be read and written
RateLimiterInit == RateLimiterInitIO(TRUE, TRUE)

CanMakeRequest ==
    LET c == can_make_request(daily_count, request_times, now)
    IN  /\ request_times' = c.request_times
        /\ rl_op' = [NoRl EXCEPT !.op = "can_make_request", !.ret = c.ret]
        /\ UNCHANGED <<daily_count, quota_file, recorded_on, quota_fault>>

WaitIfNeeded ==
    LET w == wait_if_needed(daily_count, request_times, now, <<>>)
    IN  /\ now' = w.now
        /\ request_times' = w.request_times
        /\ rl_op' = [NoRl EXCEPT !.op = "wait_if_needed", !.sleeps = w.sleeps]
        /\ UNCHANGED <<daily_count, quota_file, recorded_on, quota_fault>>

\* mutant: the count is taken back when the file cannot be written
record_request_rollback(times, count, file, t, io) ==
    [request_times |-> Append(times, t),
     daily_count   |-> IF io THEN count + 1 ELSE count,
     file          |-> _save_quota(file, count + 1, t, io)]

\* mutant: the count is read again from the quota file before it is incremented
record_request_reread(times, count, file, t, io) ==
    [request_times |-> Append(times, t),
     daily_count   |-> file.count + 1,
     file          |-> _save_quota(file, file.count + 1, t, io)]

\* what record_request leaves: [request_times, daily_count, file]
record_request(times, count, file, t, io) ==
    [request_times |-> Append(times, t),
     daily_count   |-> count + 1,
     file          |-> _save_quota(file, count + 1, t, io)]

RecordRequestIO(io) ==
    LET r == record_request(request_times, daily_count, quota_file, now, io)
    IN  /\ daily_count <= max_daily      \* bounds the counter
        /\ request_times' = r.request_times
        /\ daily_count' = r.daily_count
        /\ quota_file' = r.file
        /\ rl_op' = [NoRl EXCEPT !.op = "record_request"]
        /\ recorded_on' = [recorded_on EXCEPT ![Today] = @ + 1]
        /\ quota_fault' = IF io THEN "none" ELSE "save"

\* the same with a quota file that can be written
RecordRequest == RecordRequestIO(TRUE)

GetRemainingQuota ==
    /\ rl_op' = [NoRl EXCEPT !.op = "get_remaining_quota",
                               !.quota = get_remaining_quota(daily_count)]
    /\ UNCHANGED <<request_times, daily_count, quota_file, recorded_on,
                   quota_fault>>


-----------------------------------------------------------------------------
(* Summarizer.  summarize_articles runs in one thread; it is modelled one    *)
(* API call at a time, sm.pc being the position inside it.  The API answers  *)
(* at once, and its answer is an input: "ok", "short" (a text of too few     *)
(* words) or "raise" (generate_content or response.text raises).             *)
(* _translate_and_summarize drives the limiter exactly as _summarize_english *)
(* does, so one operator stands for both.                                    *)

max_retries == 2      \* attempts per summary (config max_retries)
MaxSumm     == 2      \* longest list handed to summarize_articles
MaxRuns     == 2      \* calls of summarize_articles in one behaviour

MIN_CONTENT      == 50     \* len(content) < 50 goes to the fallback
FALLBACK_DESC    == 500    \* description[:500]
SummaryLen       == 400    \* length of a summary the API returns
ShortSummaryLen  == 20     \* length of a summary of too few words

\* the length of the Chinese text the API returns for a text of length n
TranslationLen(n) == n \div 2 + 1

SummPool ==
    { [Article(1, 100, 0, 0, 0) EXCEPT !.content = 800],
      [Article(2, 5, 0, 0, 0) EXCEPT !.description = 0] }

SummInputs == SeqsUpTo(SummPool, MaxSumm)

GenOutcomes   == {"ok", "short", "raise"}
TransOutcomes == {"ok", "raise"}

\* api_error: generate_content or response.text raised while the current
\* article was handled; refused: the limiter refused a request for it
NoSm == [pc |-> "idle", arts |-> <<>>, i |-> 0, attempt |-> 0,
         cur |-> NoArticle, results |-> <<>>, runs |-> 0,
         api_error |-> FALSE, refused |-> FALSE]

InitSumm == sm = NoSm /\ issued = <<>>

_create_fallback_text(article) ==
    IF article.description > MIN_CONTENT
    THEN article.title + 2 + Min(article.description, FALLBACK_DESC)
           + (IF article.description > FALLBACK_DESC THEN 3 ELSE 0)
    ELSE article.title

\* mutant: the fallback leaves the summary empty
_create_fallback_summary_blank(article) ==
    [article EXCEPT !.summary = 0]

_create_fallback_summary(article) ==
    [article EXCEPT !.summary = _create_fallback_text(article)]

\* lines 247-249 and 273-275
FallbackNoZh(article) ==
    [_create_fallback_summary(article) EXCEPT !.title_zh = 0, !.summary_zh = 0]

RECURSIVE FallbackAll(_)
FallbackAll(arts) ==
    IF arts = <<>> THEN <<>>
    ELSE <<_create_fallback_summary(Head(arts))>> \o FallbackAll(Tail(arts))

\* the limiter as one record, for the operators below
Limiter == [now |-> now, request_times |-> request_times,
            daily_count |-> daily_count, file |-> quota_file]

\* _summarize_english / _translate_and_summarize from limiter state l:
\* [raised, called, text, l].  called: generate_content was invoked.
_summarize_english(l, outcome) ==
    LET w == wait_if_needed(l.daily_count, l.request_times, l.now, <<>>)
        c == can_make_request(l.daily_count, w.request_times, w.now)
        unrecorded == [l EXCEPT !.now = w.now, !.request_times = c.request_times]
        r == record_request(c.request_times, l.daily_count, l.file, w.now, TRUE)
        recorded_ == [now |-> w.now, request_times |-> r.request_times,
                      daily_count |-> r.daily_count, file |-> r.file]
    IN  IF ~c.ret
        THEN [raised |-> TRUE, called |-> FALSE, text |-> 0, l |-> unrecorded]
        ELSE IF outcome = "raise"
        THEN [raised |-> TRUE, called |-> TRUE, text |-> 0, l |-> unrecorded]
        ELSE [raised |-> FALSE, called |-> TRUE,
              text |-> IF outcome = "ok" THEN SummaryLen ELSE ShortSummaryLen,
              l |-> recorded_]

\* _translate_to_chinese(text) from limiter state l: [called, text, l]
_translate_to_chinese(text, l, outcome) ==
    IF text = 0
    THEN [called |-> FALSE, text |-> 0, l |-> l]
    ELSE LET w == wait_if_needed(l.daily_count, l.request_times, l.now, <<>>)
             c == can_make_request(l.daily_count, w.request_times, w.now)
             unrecorded == [l EXCEPT !.now = w.now,
                                     !.request_times = c.request_times]
             r == record_request(c.request_times, l.daily_count, l.file, w.now, TRUE)
             recorded_ == [now |-> w.now, request_times |-> r.request_times,
                           daily_count |-> r.daily_count, file |-> r.file]
         IN  IF ~c.ret
             THEN [called |-> FALSE, text |-> 0, l |-> unrecorded]
             ELSE IF outcome = "raise"
             THEN [called |-> TRUE, text |-> 0, l |-> unrecorded]
             ELSE [called |-> TRUE, text |-> TranslationLen(text), l |-> recorded_]

\* the limiter's variables after an operator above returned limiter state l
SetLimiter(l) ==
    /\ now' = l.now
    /\ request_times' = l.request_times
    /\ daily_count' = l.daily_count
    /\ quota_file' = l.file
    /\ UNCHANGED <<rl_op, recorded_on, quota_fault>>


\* summarize_articles(arts) up to the first article (enabled, i.e. an API key
\* is configured)
SummarizeArticles(arts) ==
    /\ sm.pc = "idle"
    /\ sm.runs < MaxRuns
    /\ IF get_remaining_quota(daily_count) <= 0
       THEN sm' = [NoSm EXCEPT !.pc = "return", !.arts = arts,
                               !.results = FallbackAll(arts),
                               !.runs = sm.runs + 1]
       ELSE sm' = [NoSm EXCEPT !.pc = "loop", !.arts = arts, !.i = 1,
                               !.runs = sm.runs + 1]
    /\ UNCHANGED <<now, limiterVars, issued>>

\* the head of the for loop: the quota test, then _generate_summary up to its
\* retry loop
ForArticle ==
    /\ sm.pc = "loop"
    /\ IF sm.i > Len(sm.arts)
       THEN /\ sm' = [sm EXCEPT !.pc = "return"]
            /\ UNCHANGED request_times
       ELSE LET article == sm.arts[sm.i]
                c       == can_make_request(daily_count, request_times, now)
                content == StrOr(StrOr(article.content, article.description),
                                 article.title)
            IN  /\ request_times' = c.request_times
                /\ sm' = IF ~c.ret
                         THEN [sm EXCEPT !.results =
                                            Append(@, FallbackNoZh(article)),
                                         !.i = @ + 1]
                         ELSE IF content < MIN_CONTENT
                         THEN [sm EXCEPT !.pc = "title",
                                         !.cur = _create_fallback_summary(article)]
                         ELSE [sm EXCEPT !.pc = "gen", !.attempt = 0,
                                         !.cur = article]
    /\ UNCHANGED <<now, daily_count, quota_file, rl_op, recorded_on,
                   quota_fault, issued>>

\* mutant: the retry loop makes one more pass before it falls back
generate_pass_onemore(attempt, raised, good) ==
    LET last == attempt = max_retries
    IN  [returns  |-> good \/ last,
         fallback |-> ~good /\ last,
         sleep    |-> IF raised /\ ~last THEN 2 ^ attempt ELSE 0]

\* one pass of the for loop of _generate_summary, the call having raised or
\* returned a summary that is good (long enough) or not: does the function
\* return, with the fallback text or not, and how long does it sleep
generate_pass(attempt, raised, good) ==
    LET last == attempt = max_retries - 1
    IN  [returns  |-> good \/ last,
         fallback |-> ~good /\ last,
         sleep    |-> IF raised /\ ~last THEN 2 ^ attempt ELSE 0]

\* one pass of the retry loop of _generate_summary
GenerateSummary(outcome) ==
    /\ sm.pc = "gen"
    /\ LET g == _summarize_english(Limiter, outcome)
           r == generate_pass(sm.attempt, g.raised, ~g.raised /\ outcome = "ok")
       IN  /\ SetLimiter([g.l EXCEPT !.now = @ + r.sleep])
           /\ issued' = IF g.called THEN Append(issued, g.l.now) ELSE issued
           /\ sm' = LET seen == [sm EXCEPT
                                   !.api_error = @ \/ (g.raised /\ g.called),
                                   !.refused = @ \/ (g.raised /\ ~g.called)]
                    IN  IF r.returns /\ ~r.fallback
                        THEN [seen EXCEPT !.pc = "title", !.cur.summary = g.text]
                        ELSE IF r.returns
                        THEN [seen EXCEPT !.pc = "title",
                                          !.cur = _create_fallback_summary(sm.cur)]
                        ELSE [seen EXCEPT !.attempt = @ + 1]

\* article.title_zh = _translate_to_chinese(article.title, "title")
TranslateTitle(outcome) ==
    /\ sm.pc = "title"
    /\ LET tr == _translate_to_chinese(sm.cur.title, Limiter, outcome)
       IN  /\ SetLimiter(tr.l)
           /\ issued' = IF tr.called THEN Append(issued, tr.l.now) ELSE issued
           /\ sm' = [sm EXCEPT !.pc = "summary_zh", !.cur.title_zh = tr.text,
                               !.api_error = @ \/ (tr.called /\ outcome = "raise"),
                               !.refused = @ \/ (sm.cur.title # 0 /\ ~tr.called)]

\* article.summary_zh = _translate_to_chinese(summary, "summary");
\* results.append(article)
TranslateSummary(outcome) ==
    /\ sm.pc = "summary_zh"
    /\ LET tr == _translate_to_chinese(sm.cur.summary, Limiter, outcome)
           done == [sm.cur EXCEPT !.summary_zh = tr.text]
       IN  /\ SetLimiter(tr.l)
           /\ issued' = IF tr.called THEN Append(issued, tr.l.now) ELSE issued
           /\ sm' = [sm EXCEPT !.pc = "loop", !.i = @ + 1, !.cur = NoArticle,
                               !.results = Append(@, done),
                               !.api_error = FALSE, !.refused = FALSE]

\* return results
SummarizeReturn ==
    /\ sm.pc = "return"
    /\ sm' = [sm EXCEPT !.pc = "idle"]
    /\ UNCHANGED <<now, limiterVars, issued>>

\* Summarizer(...) in a new process: a new RateLimiter over the same data_dir
SummarizerInit ==
    /\ sm.pc = "idle"
    /\ RateLimiterInit
    /\ sm' = [NoSm EXCEPT !.runs = sm.runs]
    /\ UNCHANGED <<now, issued>>


-----------------------------------------------------------------------------
(* ContentFetcher.  fetch_articles_content submits one task per article to   *)
(* a pool of concurrent_requests workers and collects the futures as they    *)
(* complete.  What the extractors find on a page is an input: "text" (one of *)
(* them returned a text of more than 100 characters), "none" (both returned  *)
(* None, their own exceptions included) or "raise" (an exception reached the *)
(* except branch of _fetch_article_content).                                 *)

concurrent_requests == 2   \* workers of the pool
MaxFetch            == 3   \* longest list handed to fetch_articles_content

PageLen == 800             \* length of a text an extractor returns

FetchOutcomes == {"text", "none", "raise"}

\* mutant: a page that yields nothing leaves the content as it was
_fetch_article_content_nofallback(article, outcome) ==
    IF outcome = "text"
    THEN [article EXCEPT !.content = PageLen]
    ELSE article

\* _fetch_article_content: the article with its content filled
_fetch_article_content(article, outcome) ==
    IF outcome = "text"
    THEN [article EXCEPT !.content = PageLen]
    ELSE [article EXCEPT !.content = StrOr(article.description, article.title)]

\* cf.articles are the Article objects, which the workers fill in place;
\* cf.status[k] is the state of the task of article k; cf.order lists the
\* articles in the order in which as_completed yielded their futures
NoCf == [pc |-> "idle", input |-> <<>>, articles |-> <<>>, status |-> <<>>,
         order |-> <<>>]

InitCf == cf = NoCf

\* results: the collected Article objects
Results(c) == [j \in 1..Len(c.order) |-> c.articles[c.order[j]]]

Running(c) == {k \in 1..Len(c.status) : c.status[k] = "running"}

\* executor.submit for every article
FetchSubmit(arts) ==
    /\ cf.pc = "idle"
    /\ cf' = [NoCf EXCEPT !.pc = "collect", !.input = arts, !.articles = arts,
                          !.status = [k \in 1..Len(arts) |-> "queued"]]

\* a free worker takes the oldest queued task
WorkerStart(k) ==
    /\ cf.pc = "collect"
    /\ k \in 1..Len(cf.status)
    /\ cf.status[k] = "queued"
    /\ \A j \in 1..(k - 1) : cf.status[j] # "queued"
    /\ Cardinality(Running(cf)) < concurrent_requests
    /\ cf' = [cf EXCEPT !.status[k] = "running"]

\* the worker of article k returns from _fetch_article_content
WorkerFinish(k, outcome) ==
    /\ cf.pc = "collect"
    /\ k \in 1..Len(cf.status)
    /\ cf.status[k] = "running"
    /\ cf' = [cf EXCEPT !.status[k] = "done",
                        !.articles[k] = _fetch_article_content(@, outcome)]

\* as_completed yields a completed future; results.append(future.result())
Collect(k) ==
    /\ cf.pc = "collect"
    /\ k \in 1..Len(cf.status)
    /\ cf.status[k] = "done"
    /\ cf' = [cf EXCEPT !.status[k] = "collected", !.order = Append(@, k)]

\* every future was yielded: the with block ends, return results
FetchReturn ==
    /\ cf.pc = "collect"
    /\ \A k \in 1..Len(cf.status) : cf.status[k] = "collected"
    /\ cf' = [cf EXCEPT !.pc = "return"]

FetchPool == { Article(1, 100, 0, 0, 0),
               [Article(2, 5, 0, 0, 0) EXCEPT !.description = 0] }

FetchInputs == SeqsUpTo(FetchPool, MaxFetch)

-----------------------------------------------------------------------------
(* A second RateLimiter constructed over the same data_dir by a run that     *)
(* executes at the same time (another process).  It shares api_quota.json    *)
(* with the first and nothing else.                                          *)

NoPeer == [request_times |-> <<>>, daily_count |-> 0]

InitPeer == peer = NoPeer

\* RateLimiter(...) in the other process
PeerInit ==
    LET l == _load_quota(quota_file, now, TRUE, TRUE)
    IN  /\ peer' = [request_times |-> <<>>, daily_count |-> l.daily_count]
        /\ quota_file' = l.file
        /\ UNCHANGED <<request_times, daily_count, rl_op, recorded_on, quota_fault>>

\* record_request() in the other process
PeerRecordRequest ==
    LET r == record_request(peer.request_times, peer.daily_count, quota_file,
                            now, TRUE)
    IN  /\ peer.daily_count <= max_daily      \* bounds the counter
        /\ peer' = [request_times |-> r.request_times,
                    daily_count |-> r.daily_count]
        /\ quota_file' = r.file
        /\ recorded_on' = [recorded_on EXCEPT ![Today] = @ + 1]
        /\ UNCHANGED <<request_times, daily_count, rl_op, quota_fault>>

-----------------------------------------------------------------------------
(* Scheduled mode: run_scheduled calls scheduled_job once and then at every  *)
(* trigger.  A datetime is [t, aware]: t seconds, aware when it carries a    *)
(* time zone; datetime.now() is the naive local time now + tz, and           *)
(* datetime.now(pytz.UTC) the aware instant now.  Python raises TypeError    *)
(* when a naive and an aware datetime are ordered.  Steps 3-8 of run() are   *)
(* those of RunSpec; here they take some time and return or raise.           *)

MaxJobs == 3          \* calls of scheduled_job in one behaviour

schedule_interval_hours == 24    \* config schedule_interval_hours

UtcOffsets   == {0, 3600}        \* local time minus UTC, in seconds
RunDurations == {0, 30}          \* seconds steps 3-8 of run() take
TriggerGaps  == {60, 86400}      \* seconds from the end of a job to the next trigger

NoStr == <<>>                    \* None in place of a time string

Naive(t) == [none |-> FALSE, t |-> t, aware |-> FALSE]
Aware(t) == [none |-> FALSE, t |-> t, aware |-> TRUE]
NoDt     == [none |-> TRUE, t |-> 0, aware |-> FALSE]

NoLastRunFile == [exists |-> FALSE, last_run |-> NoStr]

\* save_last_run: {'last_run': datetime.now().isoformat()}; a failure is
\* logged only
save_last_run(file, t, tz, io) ==
    IF io THEN [exists |-> TRUE, last_run |-> IsoFormat(t + tz)] ELSE file

\* get_last_run: the parsed timestamp, or None when there is no file or it
\* cannot be read
get_last_run(file, io) ==
    IF io /\ file.exists THEN Naive(ParseIso(file.last_run)) ELSE NoDt

\* _parse_datetime of an absolute time string: dateutil gives a naive datetime
_parse_datetime(time_str) == Naive(ParseIso(time_str))

\* _to_utc: a naive datetime is taken to be UTC
_to_utc(dt) == dt.t

NoRange == [raised |-> FALSE, none |-> TRUE, start |-> 0, end |-> 0]

\* parse_time_range(start_time, end_time, default_hours) at instant t:
\* [raised, start, end].  It raises TypeError when start_dt >= end_dt orders a
\* naive datetime against an aware one, ValueError when start is not before end
parse_time_range(start_time, end_time, default_hours, t) ==
    LET end_dt   == IF end_time # NoStr THEN _parse_datetime(end_time) ELSE Aware(t)
        start_dt == IF start_time # NoStr THEN _parse_datetime(start_time)
                    ELSE [end_dt EXCEPT !.t = @ - default_hours * 3600]
    IN  IF start_dt.aware # end_dt.aware
        THEN [NoRange EXCEPT !.raised = TRUE]
        ELSE IF start_dt.t >= end_dt.t
        THEN [NoRange EXCEPT !.raised = TRUE]
        ELSE [raised |-> FALSE, none |-> FALSE,
              start |-> _to_utc(start_dt), end |-> _to_utc(end_dt)]

\* mutant: the timestamp is saved whether run() raised or not
finish_job_always(file, raised, t, tz, io) == save_last_run(file, t, tz, io)

\* the end of scheduled_job: save_last_run() follows self.run() inside the
\* try, so it is skipped when run() raised
finish_job(file, raised, t, tz, io) ==
    IF raised THEN file ELSE save_last_run(file, t, tz, io)

\* sched: pc is "idle" between jobs and "run" inside steps 3-8 of run();
\* file is last_run.json; range is the time range of the run in progress and
\* prev that of the last run that returned; error is "none", "range" when
\* parse_time_range raised in the last job, "run" when another step did;
\* jobs counts the calls of scheduled_job and raised those that caught an
\* exception since the last run that returned; waited is TRUE once the trigger
\* has fired after the last job
NoSched == [pc |-> "idle", file |-> NoLastRunFile, tz |-> 0, jobs |-> 0,
            raised |-> 0, error |-> "none", range |-> NoRange,
            prev |-> NoRange, waited |-> FALSE]

InitSched == sched = NoSched

\* a data directory with or without a last_run.json left by an earlier process
InitSchedAny ==
    \E tz \in UtcOffsets :
        \E file \in {NoLastRunFile, save_last_run(NoLastRunFile, 0, tz, TRUE)} :
            sched = [NoSched EXCEPT !.tz = tz, !.file = file]

\* scheduled_job up to step 2 of run(): get_last_run, then run(start_time,
\* None) loads the sources and parses the time range
JobStart(io, sources_ok) ==
    /\ sched.pc = "idle"
    /\ sched.jobs < MaxJobs
    /\ sched.jobs = 0 \/ sched.waited     \* at once, then at every trigger
    /\ LET last_run   == get_last_run(sched.file, io)
           start_time == IF last_run.none THEN NoStr ELSE StrfTime(last_run.t)
           r          == parse_time_range(start_time, NoStr,
                                          schedule_interval_hours, now)
           raised     == ~sources_ok \/ r.raised
       IN  sched' = [sched EXCEPT
                       !.jobs = @ + 1,
                       !.waited = FALSE,
                       !.pc = IF raised THEN "idle" ELSE "run",
                       !.error = IF ~sources_ok THEN "run"
                                 ELSE IF r.raised THEN "range" ELSE "none",
                       !.raised = IF raised THEN @ + 1 ELSE @,
                       !.range = IF raised THEN NoRange ELSE r,
                       !.file = IF raised
                                THEN finish_job(sched.file, TRUE, now, sched.tz, TRUE)
                                ELSE @]
    /\ UNCHANGED now

\* steps 3-8 of run() take dt seconds and return or raise; then the rest of
\* scheduled_job
JobRun(dt, returns, io) ==
    /\ sched.pc = "run"
    /\ now' = now + dt
    /\ sched' = [sched EXCEPT
                   !.pc = "idle",
                   !.error = IF returns THEN "none" ELSE "run",
                   !.raised = IF returns THEN 0 ELSE @ + 1,
                   !.prev = IF returns THEN sched.range ELSE @,
                   !.range = NoRange,
                   !.file = finish_job(sched.file, ~returns, now', sched.tz, io)]

\* the scheduler waits for the next trigger
Trigger(dt) ==
    /\ sched.pc = "idle"
    /\ sched.jobs \in 1..(MaxJobs - 1)
    /\ ~sched.waited
    /\ now' = now + dt
    /\ sched' = [sched EXCEPT !.waited = TRUE]

-----------------------------------------------------------------------------
(* WeComPusher: push_articles, one webhook post at a time.  The webhook's    *)
(* answer to a post is an input: "ok" (errcode 0), "errcode" (another        *)
(* errcode) or "raise" (requests.post, raise_for_status or json raises; a    *)
(* timeout is one of these).  A text is [body, tail]: body characters of the *)
(* formatted content followed by a marker of tail characters.                *)

pusher_max_retries == 3    \* WeComPusher.max_retries
batch_size         == 10   \* WeComPusher.batch_size
NoArticlesLen      == 80   \* len of the content of _send_no_articles_message

MaxPush   == 3        \* longest list of PushPool handed to push_articles

PostOutcomes == {"ok", "errcode", "raise"}

\* len(str(n))
Digits(n) == IF n < 10 THEN 1 ELSE IF n < 100 THEN 2 ELSE IF n < 1000 THEN 3 ELSE 4

\* the parts appended for articles i.. of a batch (the for loop of
\* _format_message), as a length
RECURSIVE format_articles(_, _)
format_articles(arts, i) ==
    IF i > Len(arts) THEN 0
    ELSE LET article      == arts[i]
             summary_text == StrOr(article.summary_zh, article.summary)
             shown        == IF summary_text > MAX_SUMMARY_LENGTH
                             THEN MAX_SUMMARY_LENGTH + 3
                             ELSE summary_text
         IN  (8 + Digits(i) + article.title)
             + (13 + article.source)
             + (17 + 2 * LinkLen(article.link))
             + (IF summary_text # 0 THEN 20 + shown ELSE 0)
             + (IF i < Len(arts) THEN 5 ELSE 0)
             + format_articles(arts, i + 1)

\* len("".join(content_parts))
content_parts(arts, batch_num, total_batches) ==
    (IF total_batches > 1
        THEN 44 + Digits(batch_num) + Digits(total_batches)
        ELSE 34)
    + (20 + Digits(Len(arts)))
    + 4
    + format_articles(arts, 1)

TextLen(text) == text.body + text.tail

\* mutant: the cut keeps MAX_CONTENT_LENGTH characters before the marker
_format_message_late(arts, batch_num, total_batches) ==
    LET content == content_parts(arts, batch_num, total_batches)
    IN  IF content > MAX_CONTENT_LENGTH
        THEN [body |-> Min(content, MAX_CONTENT_LENGTH), tail |-> 3]
        ELSE [body |-> content, tail |-> 0]

\* _format_message: the content of the message
_format_message(arts, batch_num, total_batches) ==
    LET content == content_parts(arts, batch_num, total_batches)
    IN  IF content > MAX_CONTENT_LENGTH
        THEN [body |-> Min(content, MAX_CONTENT_LENGTH - 3), tail |-> 3]
        ELSE [body |-> content, tail |-> 0]

NoText == [body |-> 0, tail |-> 0]

\* the record of one _send_batch call: posts made, sleeps taken, result
NoSend == [posts |-> 0, acks |-> 0, sleeps |-> <<>>, ret |-> FALSE,
           returned |-> FALSE]

NoStats == [success |-> 0, failed |-> 0, total |-> 0]

NoPush == [pc |-> "idle", enabled |-> TRUE, i |-> 0, attempt |-> 0,
           message |-> NoText, send |-> NoSend, stats |-> NoStats]

InitPush ==
    /\ push \in {[NoPush EXCEPT !.enabled = e] : e \in BOOLEAN}
    /\ sent = {}
    /\ accepted = {}

\* a pusher with a webhook URL, not yet called
IdlePush ==
    /\ push = NoPush
    /\ sent = {}
    /\ accepted = {}

Links(arts) == {arts[k].link : k \in 1..Len(arts)}

\* push_articles(arts) up to the first post of the first batch
PushArticles(arts) ==
    /\ push.pc = "idle"
    /\ IF ~push.enabled
       THEN /\ push' = [push EXCEPT !.pc = "return", !.send = NoSend,
                                    !.stats = [NoStats EXCEPT !.total = Len(arts)]]
            /\ UNCHANGED <<batchVars, sent>>
       ELSE IF arts = <<>>
       THEN \* _send_no_articles_message; its result is dropped
            /\ push' = [push EXCEPT !.pc = "return", !.send = NoSend,
                                    !.stats = NoStats]
            /\ sent' = sent \cup {[n |-> 0, len |-> NoArticlesLen]}
            /\ UNCHANGED batchVars
       ELSE /\ articles' = arts
            /\ batches' = _create_batches(arts)
            /\ packed' = TRUE
            /\ push' = [push EXCEPT
                          !.pc = "post", !.i = 1, !.attempt = 0,
                          !.message = _format_message(batches'[1], 1, Len(batches')),
                          !.send = NoSend,
                          !.stats = [NoStats EXCEPT !.total = Len(arts)]]
            /\ UNCHANGED sent
    /\ UNCHANGED <<now, accepted>>

\* mutant: the retry loop makes one more attempt before it gives up
retry_pass_onemore(attempt, ack) ==
    LET last == ~(attempt < pusher_max_retries)
    IN  [returns |-> ack \/ last,
         ret     |-> ack,
         sleep   |-> IF ack \/ last THEN 0 ELSE 2 ^ attempt]

\* one pass of the for loop of _send_batch, the post acknowledged or not:
\* does the call return, with what, and how long does it sleep
retry_pass(attempt, ack) ==
    LET last == ~(attempt < pusher_max_retries - 1)
    IN  [returns |-> ack \/ last,
         ret     |-> ack,
         sleep   |-> IF ack \/ last THEN 0 ELSE 2 ^ attempt]

\* mutant: a batch that failed is not counted
count_batch_lost(stats, n, ret) ==
    IF ret THEN [stats EXCEPT !.success = @ + n] ELSE stats

\* push_articles counts the batch of n articles as _send_batch returned
count_batch(stats, n, ret) ==
    IF ret THEN [stats EXCEPT !.success = @ + n]
           ELSE [stats EXCEPT !.failed = @ + n]

\* one pass of the retry loop of _send_batch for batch push.i; when the call
\* returns, the rest of the loop body of push_articles up to the next post
Post(outcome) ==
    /\ push.pc = "post"
    /\ LET batch   == batches[push.i]
           ack     == outcome = "ok"
           r       == retry_pass(push.attempt, ack)
           returns == r.returns
           more    == push.i < Len(batches)
           \* time.sleep(2) of push_articles between two batches
           sleep   == IF returns THEN (IF more THEN 2 ELSE 0) ELSE r.sleep
           begun   == IF push.send.returned THEN NoSend ELSE push.send
           posted  == [begun EXCEPT !.posts = @ + 1,
                                    !.acks = IF ack THEN @ + 1 ELSE @]
           stats   == count_batch(push.stats, Len(batch), r.ret)
       IN  /\ sent' = sent \cup {[n |-> Len(batch), len |-> TextLen(push.message)]}
           /\ accepted' = IF ack THEN accepted \cup Links(batch) ELSE accepted
           /\ now' = now + sleep
           /\ push' =
                IF ~returns
                THEN [push EXCEPT !.attempt = @ + 1,
                                  !.send = [posted EXCEPT
                                              !.sleeps = Append(@, r.sleep)]]
                ELSE IF more
                THEN [push EXCEPT
                        !.i = @ + 1, !.attempt = 0,
                        !.message = _format_message(batches[push.i + 1], push.i + 1,
                                                    Len(batches)),
                        !.send = [posted EXCEPT !.ret = r.ret, !.returned = TRUE],
                        !.stats = stats]
                ELSE [push EXCEPT
                        !.pc = "return",
                        !.send = [posted EXCEPT !.ret = r.ret, !.returned = TRUE],
                        !.stats = stats]
    /\ UNCHANGED batchVars

\* return stats
PushReturn ==
    /\ push.pc = "return"
    /\ push' = [push EXCEPT !.pc = "idle"]
    /\ UNCHANGED <<now, batchVars, sent, accepted>>

\* the lists push_articles is tried on: short ones of three articles (estimates
\* 400, 1973 and 5040) and one of more than batch_size small articles
PushPool == { Article(1, 100, 130, 0, 0),
              Article(2, 1833, 0, 0, 0),
              Article(3, 4900, 0, 0, 0) }

LongList == [k \in 1..(batch_size + 2) |-> Article(3, 5, 0, 0, 0)]

PushInputs == SeqsUpTo(PushPool, MaxPush) \cup {LongList}

-----------------------------------------------------------------------------
(* RSSArticleFetcher.run, one step of the pipeline at a time so that the     *)
(* process can die between two steps.  The feeds' answer (steps 1-3) is an   *)
(* input; step 6 is the summarizer above with an API that answers "ok".      *)


RunInputs == FilterInputs   \* what fetch_articles returns; feeds may share a link

NoRun == [pc |-> "idle", force |-> FALSE, no_push |-> FALSE,
          articles |-> <<>>, new_articles |-> <<>>,
          articles_with_content |-> <<>>, articles_with_summaries |-> <<>>]

InitRun ==
    /\ run = NoRun
    /\ times_processed = [u \in Urls |-> 0]

\* save_articles: [db, cache, n] after mark_as_processed on each article
RECURSIVE save_loop(_, _, _, _, _, _)
save_loop(arts, i, d, cache, t, n) ==
    IF i > Len(arts) THEN [db |-> d, cache |-> cache, n |-> n]
    ELSE LET r == mark_as_processed(arts[i], d, cache, t, TRUE)
         IN  save_loop(arts, i + 1, r.db, r.cache, t,
                       IF r.ret THEN n + 1 ELSE n)

\* mutant: nothing is written
save_articles_nothing(arts, d, cache, t) == [db |-> d, cache |-> cache, n |-> 0]

save_articles(arts, d, cache, t) == save_loop(arts, 1, d, cache, t, 0)

Perms(n) == {p \in [1..n -> 1..n] : \A i, j \in 1..n : p[i] = p[j] => i = j}

\* how often link u occurs in a list
Occurrences(arts, u) == Cardinality({i \in 1..Len(arts) : arts[i].link = u})

\* run(force, no_push), steps 1-4, the feeds returning arts
Run(arts, force, no_push) ==
    /\ run.pc = "idle"
    /\ sm.pc = "idle"
    /\ sm.runs < MaxRuns      \* bounds the behaviour
    /\ IF arts = <<>>
       THEN \* no articles in the time range: push_articles([]) unless no_push
            /\ IF no_push
               THEN /\ run' = [NoRun EXCEPT !.force = force, !.no_push = no_push]
                    /\ UNCHANGED <<batchVars, pushVars, fetchVars, peerVars, schedVars>>
               ELSE /\ PushArticles(<<>>)
                    /\ run' = [NoRun EXCEPT !.pc = "pushing", !.force = force,
                                             !.no_push = no_push]
            /\ UNCHANGED storeVars
       ELSE /\ FilterUnprocessed(arts, force)
            /\ run' = [NoRun EXCEPT
                         !.pc = IF st_op'.out = <<>> THEN "idle" ELSE "content",
                         !.force = force, !.no_push = no_push,
                         !.articles = arts, !.new_articles = st_op'.out]
            /\ UNCHANGED <<batchVars, pushVars, fetchVars, peerVars, schedVars>>
    /\ UNCHANGED <<now, limiterVars, summVars, times_processed, fetchVars, peerVars, schedVars>>

\* step 5, fetch_articles_content as one step: the results in any completion
\* order, each page yielding a text or not
FetchArticlesContent ==
    /\ run.pc = "content"
    /\ \E p \in Perms(Len(run.new_articles)),
          c \in [1..Len(run.new_articles) -> FetchOutcomes] :
          run' = [run EXCEPT
                    !.pc = "summarize",
                    !.articles_with_content =
                       [i \in 1..Len(run.new_articles) |->
                           _fetch_article_content(run.new_articles[p[i]], c[i])]]
    /\ UNCHANGED <<now, batchVars, storeVars, limiterVars, summVars,
                   times_processed, pushVars, fetchVars, peerVars, schedVars>>

\* step 6 begins: summarize_articles(articles_with_content)
RunSummarize ==
    /\ run.pc = "summarize"
    /\ SummarizeArticles(run.articles_with_content)
    /\ run' = [run EXCEPT !.pc = "summarizing"]
    /\ UNCHANGED <<batchVars, storeVars, times_processed, pushVars, fetchVars, peerVars, schedVars>>

\* step 6 ends: every article of the list has been fetched and summarized
RunSummarized ==
    /\ run.pc = "summarizing"
    /\ SummarizeReturn
    /\ run' = [run EXCEPT !.pc = "save", !.articles_with_summaries = sm.results]
    /\ times_processed' =
          [u \in Urls |-> times_processed[u] + Occurrences(sm.results, u)]
    /\ UNCHANGED <<batchVars, storeVars, pushVars, fetchVars, peerVars, schedVars>>

\* step 7, save_articles
RunSave ==
    /\ run.pc = "save"
    /\ LET r == save_articles(run.articles_with_summaries, db, processed_urls, now)
       IN  /\ db' = r.db
           /\ processed_urls' = r.cache
           /\ st_op' = [NoOp EXCEPT !.op = "save_articles",
                                     !.arts = run.articles_with_summaries,
                                     !.n = r.n]
           /\ recorded' = recorded \cup
                 {_hash_url(run.articles_with_summaries[i].link) :
                     i \in 1..Len(run.articles_with_summaries)}
    /\ run' = [run EXCEPT !.pc = "push"]
    /\ UNCHANGED <<now, batchVars, limiterVars, summVars, times_processed,
                   pushVars, fetchVars, peerVars, schedVars>>

\* step 8: with no_push return at once, else push_articles begins
RunPush ==
    /\ run.pc = "push"
    /\ IF run.no_push
       THEN /\ run' = [run EXCEPT !.pc = "idle"]
            /\ UNCHANGED <<now, batchVars, pushVars, fetchVars, peerVars, schedVars>>
       ELSE /\ PushArticles(run.articles_with_summaries)
            /\ run' = [run EXCEPT !.pc = "pushing"]
    /\ UNCHANGED <<storeVars, limiterVars, summVars, times_processed, fetchVars, peerVars, schedVars>>

\* push_articles returns its stats, and run returns
RunReturn ==
    /\ run.pc = "pushing"
    /\ PushReturn
    /\ run' = [run EXCEPT !.pc = "idle"]
    /\ UNCHANGED <<storeVars, limiterVars, summVars, times_processed, fetchVars, peerVars, schedVars>>

\* the process ends, at any point of a run or between two runs, and a new one
\* is started: RSSArticleFetcher.__init__ builds a Summarizer and a Storage
\* over the same data_dir
Restart ==
    /\ run' = NoRun
    /\ sm' = [NoSm EXCEPT !.runs = sm.runs]
    /\ RateLimiterInit
    /\ StorageInit
    /\ push' = [NoPush EXCEPT !.enabled = push.enabled]
    /\ UNCHANGED <<now, batchVars, issued, times_processed, sent, accepted,
                   fetchVars, peerVars, schedVars>>


-----------------------------------------------------------------------------
(* Specifications.  Each one drives one component and leaves the others'     *)
(* variables alone.                                                          *)


\* the batch packer applied to every input list
BatchInit == now = 0 /\ InitBatch /\ InitStore /\ InitLimiter /\ InitSumm /\ InitRun /\ IdlePush /\ InitCf /\ InitPeer /\ InitSched

BatchNext ==
    CreateBatches /\ UNCHANGED <<now, storeVars, limiterVars, summVars, runVars, pushVars, fetchVars, peerVars, schedVars>>

BatchSpec == BatchInit /\ [][BatchNext]_vars

\* the store's operations in any order, restarts of the process included;
\* sqlite3 works throughout
StoreInit == now = 0 /\ IdleBatch /\ InitStore /\ InitLimiter /\ InitSumm /\ InitRun /\ IdlePush /\ InitCf /\ InitPeer /\ InitSched

StoreFrame == UNCHANGED <<now, batchVars, limiterVars, summVars, runVars, pushVars, fetchVars, peerVars, schedVars>>

StoreNext ==
    \/ StorageInit /\ StoreFrame
    \/ (\E a \in StorePool : MarkAsProcessed(a)) /\ StoreFrame
    \/ (\E u \in Urls : IsProcessed(u)) /\ StoreFrame
    \/ (\E arts \in FilterInputs, force \in BOOLEAN : FilterUnprocessed(arts, force))
          /\ StoreFrame
    \/ (\E days \in CleanupDays : CleanupOldRecords(days)) /\ StoreFrame
    \/ ResetDatabase /\ StoreFrame
    \/ (\E start_time, end_time \in QueryTimes :
            start_time <= end_time
            /\ GetArticlesByTimeRange(start_time, end_time)) /\ StoreFrame
    \/ NextDay /\ UNCHANGED <<batchVars, storeVars, limiterVars, summVars, runVars, pushVars, fetchVars, peerVars, schedVars>>

\* the store's operations in any order while any sqlite3 access may fail;
\* after a construction that raised there is no store to call
StoreFaultNext ==
    \/ (\E io_init, io_load \in BOOLEAN : StorageInitIO(io_init, io_load))
          /\ StoreFrame
    \/ ~st_op.raised /\ (\E a \in FilterPool, io \in BOOLEAN : MarkAsProcessedIO(a, io))
          /\ StoreFrame
    \/ ~st_op.raised /\ (\E u \in Urls : IsProcessed(u)) /\ StoreFrame
    \/ ~st_op.raised
          /\ (\E arts \in FilterInputs, force \in BOOLEAN :
                 FilterUnprocessed(arts, force))
          /\ StoreFrame
    \/ ~st_op.raised
          /\ (\E days \in CleanupDays, io, io_load \in BOOLEAN :
                 CleanupOldRecordsIO(days, io, io_load))
          /\ StoreFrame
    \/ ~st_op.raised /\ (\E io \in BOOLEAN : ResetDatabaseIO(io)) /\ StoreFrame
    \/ ~st_op.raised
          /\ (\E start_time, end_time \in QueryTimes, io \in BOOLEAN :
                 start_time <= end_time
                 /\ GetArticlesByTimeRangeIO(start_time, end_time, io))
          /\ StoreFrame
    \/ NextDay /\ UNCHANGED <<batchVars, storeVars, limiterVars, summVars, runVars, pushVars, fetchVars, peerVars, schedVars>>

StoreFaultSpec == StoreInit /\ [][StoreFaultNext]_vars

StoreSpec == StoreInit /\ [][StoreNext]_vars

\* the limiter's operations in any order while time passes, restarts included;
\* the quota file can be read and written throughout
LimiterInit == now = 0 /\ IdleBatch /\ InitStore /\ InitLimiter /\ InitSumm /\ InitRun /\ IdlePush /\ InitCf /\ InitPeer /\ InitSched

LimiterFrame == UNCHANGED <<batchVars, storeVars, summVars, runVars, pushVars, fetchVars, peerVars, schedVars>>

LimiterNext ==
    \/ RateLimiterInit /\ UNCHANGED now /\ LimiterFrame
    \/ CanMakeRequest /\ UNCHANGED now /\ LimiterFrame
    \/ RecordRequest /\ UNCHANGED now /\ LimiterFrame
    \/ GetRemainingQuota /\ UNCHANGED now /\ LimiterFrame
    \/ WaitIfNeeded /\ LimiterFrame
    \/ Tick /\ UNCHANGED limiterVars /\ LimiterFrame
    \/ NextDay /\ UNCHANGED limiterVars /\ LimiterFrame

LimiterSpec == LimiterInit /\ [][LimiterNext]_vars


\* the limiter's operations in any order while reading, parsing or writing
\* the quota file may fail at any access; time passes in wait_if_needed and
\* from one day to the next
LimiterFaultNext ==
    \/ (\E io, io_w \in BOOLEAN : RateLimiterInitIO(io, io_w))
          /\ UNCHANGED now /\ LimiterFrame
    \/ CanMakeRequest /\ UNCHANGED now /\ LimiterFrame
    \/ (\E io \in BOOLEAN : RecordRequestIO(io))
          /\ recorded_on[Today] <= max_daily      \* bounds the history
          /\ UNCHANGED now /\ LimiterFrame
    \/ GetRemainingQuota /\ UNCHANGED now /\ LimiterFrame
    \/ WaitIfNeeded /\ LimiterFrame
    \/ NextDay /\ UNCHANGED limiterVars /\ LimiterFrame

LimiterFaultSpec == LimiterInit /\ [][LimiterFaultNext]_vars

\* summarize_articles called again and again, the process being restarted or
\* the date changing between calls; within a call time passes by the sleeps of
\* wait_if_needed and of the retry loop.  The quota file can be read and written
SummInit == now = 0 /\ IdleBatch /\ InitStore /\ InitLimiter /\ InitSumm /\ InitRun /\ IdlePush /\ InitCf /\ InitPeer /\ InitSched

SummFrame == UNCHANGED <<batchVars, storeVars, runVars, pushVars, fetchVars, peerVars, schedVars>>

SummNext ==
    \/ (\E arts \in SummInputs : SummarizeArticles(arts)) /\ SummFrame
    \/ ForArticle /\ SummFrame
    \/ (\E o \in GenOutcomes : GenerateSummary(o)) /\ SummFrame
    \/ (\E o \in TransOutcomes : TranslateTitle(o)) /\ SummFrame
    \/ (\E o \in TransOutcomes : TranslateSummary(o)) /\ SummFrame
    \/ SummarizeReturn /\ SummFrame
    \/ SummarizerInit /\ SummFrame
    \/ sm.pc = "idle" /\ NextDay /\ UNCHANGED <<limiterVars, summVars>> /\ SummFrame

SummSpec == SummInit /\ [][SummNext]_vars


\* one call of summarize_articles in a process whose limiter found any count of
\* today's requests in the quota file; the API answers each call in any way
InitLimiterUsed ==
    /\ request_times = <<>>
    /\ daily_count \in 0..max_daily
    /\ quota_file = _save_quota(NoQuotaFile, daily_count, now, TRUE)
    /\ rl_op = [NoRl EXCEPT !.op = "init"]
    /\ recorded_on = [ZeroCounts EXCEPT ![Today] = daily_count]
    /\ quota_fault = "none"

EnrichInit ==
    now = 0 /\ IdleBatch /\ InitStore /\ InitLimiterUsed /\ InitSumm /\ InitRun /\ IdlePush /\ InitCf /\ InitPeer /\ InitSched

EnrichNext ==
    \/ sm.runs = 0 /\ (\E arts \in SummInputs : SummarizeArticles(arts)) /\ SummFrame
    \/ ForArticle /\ SummFrame
    \/ (\E o \in GenOutcomes : GenerateSummary(o)) /\ SummFrame
    \/ (\E o \in TransOutcomes : TranslateTitle(o)) /\ SummFrame
    \/ (\E o \in TransOutcomes : TranslateSummary(o)) /\ SummFrame
    \/ SummarizeReturn /\ SummFrame

EnrichSpec == EnrichInit /\ [][EnrichNext]_vars


\* fetch_articles_content on every input list, the workers starting, finishing
\* and being collected in any interleaving the pool allows
FetchInit == now = 0 /\ IdleBatch /\ InitStore /\ InitLimiter /\ InitSumm /\ InitRun /\ IdlePush /\ InitCf /\ InitPeer /\ InitSched

FetchFrame ==
    UNCHANGED <<now, batchVars, storeVars, limiterVars, summVars, runVars, pushVars,
                peerVars, schedVars>>

FetchNext ==
    \/ (\E arts \in FetchInputs : FetchSubmit(arts)) /\ FetchFrame
    \/ (\E k \in 1..MaxFetch : WorkerStart(k)) /\ FetchFrame
    \/ (\E k \in 1..MaxFetch, o \in FetchOutcomes : WorkerFinish(k, o)) /\ FetchFrame
    \/ (\E k \in 1..MaxFetch : Collect(k)) /\ FetchFrame
    \/ FetchReturn /\ FetchFrame

FetchSpec == FetchInit /\ [][FetchNext]_vars


\* push_articles on every input list, with and without a webhook URL, the
\* webhook answering each post in any way; calls are made until a first
\* message has been posted
PushInit == now = 0 /\ IdleBatch /\ InitStore /\ InitLimiter /\ InitSumm /\ InitRun /\ InitPush /\ InitCf /\ InitPeer /\ InitSched

PushFrame == UNCHANGED <<storeVars, limiterVars, summVars, runVars, fetchVars, peerVars, schedVars>>

PushNext ==
    \/ sent = {} /\ (\E arts \in PushInputs : PushArticles(arts)) /\ PushFrame
    \/ (\E o \in PostOutcomes : Post(o)) /\ PushFrame
    \/ PushReturn /\ PushFrame

PushSpec == PushInit /\ [][PushNext]_vars

\* the same where a post that can be made is made (requests.post returns or
\* raises within its timeout) and a return that can be taken is taken
PushFairSpec ==
    /\ PushSpec
    /\ WF_vars((\E o \in PostOutcomes : Post(o)) /\ PushFrame)
    /\ WF_vars(PushReturn /\ PushFrame)


\* two RateLimiter instances of two concurrent runs over one quota file, on
\* one date: each is constructed and records requests at any time
PeerInit0 == now = 0 /\ IdleBatch /\ InitStore /\ InitLimiter /\ InitSumm /\ InitRun /\ IdlePush /\ InitCf /\ InitPeer /\ InitSched

PeerFrame ==
    UNCHANGED <<now, batchVars, storeVars, summVars, runVars, pushVars,
                fetchVars, schedVars>>

PeerNext ==
    \/ RateLimiterInit /\ UNCHANGED peerVars /\ PeerFrame
    \/ RecordRequest /\ recorded_on[Today] <= max_daily /\ UNCHANGED peerVars
          /\ PeerFrame
    \/ PeerInit /\ PeerFrame
    \/ PeerRecordRequest /\ recorded_on[Today] <= max_daily /\ PeerFrame

PeerSpec == PeerInit0 /\ [][PeerNext]_vars

\* run_scheduled in a data directory with or without a last_run.json: the first
\* job at once, then one per trigger; reading or writing last_run.json may fail
SchedInit ==
    now = 0 /\ IdleBatch /\ InitStore /\ InitLimiter /\ InitSumm /\ InitRun /\ IdlePush /\ InitCf /\ InitPeer /\ InitSchedAny

SchedFrame ==
    UNCHANGED <<batchVars, storeVars, limiterVars, summVars, runVars, pushVars,
                fetchVars, peerVars>>

SchedNext ==
    \/ (\E io, sources_ok \in BOOLEAN : JobStart(io, sources_ok)) /\ SchedFrame
    \/ (\E dt \in RunDurations, returns, io \in BOOLEAN : JobRun(dt, returns, io))
          /\ SchedFrame
    \/ (\E dt \in TriggerGaps : Trigger(dt)) /\ SchedFrame

SchedSpec == SchedInit /\ [][SchedNext]_vars

\* run(force=False) again and again over the same data_dir, the process dying
\* and being restarted at any point; sqlite3, the quota file and the API work
RunInit == now = 0 /\ IdleBatch /\ InitStore /\ InitLimiter /\ InitSumm /\ InitRun /\ IdlePush /\ InitCf /\ InitPeer /\ InitSched

RunNext ==
    \/ \E arts \in RunInputs, no_push \in BOOLEAN : Run(arts, FALSE, no_push)
    \/ FetchArticlesContent
    \/ RunSummarize
    \/ run.pc = "summarizing" /\ ForArticle /\ UNCHANGED <<batchVars, storeVars, runVars, pushVars, fetchVars, peerVars, schedVars>>
    \/ GenerateSummary("ok") /\ UNCHANGED <<batchVars, storeVars, runVars, pushVars, fetchVars, peerVars, schedVars>>
    \/ TranslateTitle("ok") /\ UNCHANGED <<batchVars, storeVars, runVars, pushVars, fetchVars, peerVars, schedVars>>
    \/ TranslateSummary("ok") /\ UNCHANGED <<batchVars, storeVars, runVars, pushVars, fetchVars, peerVars, schedVars>>
    \/ RunSummarized
    \/ RunSave
    \/ RunPush
    \/ run.pc = "pushing" /\ Post("ok")
          /\ UNCHANGED <<storeVars, limiterVars, summVars, runVars, fetchVars, peerVars, schedVars>>
    \/ RunReturn
    \/ Restart
    \/ run.pc = "idle" /\ NextDay
          /\ UNCHANGED <<batchVars, storeVars, limiterVars, summVars, runVars, pushVars, fetchVars, peerVars, schedVars>>

RunSpec == RunInit /\ [][RunNext]_vars

\* run(force=False, no_push=False) again and again in one process, the webhook
\* answering each post in any way; sqlite3, the quota file and the API work
DeliverPool == {Article(u, 100, 130, 0, PublishedOf(u)) : u \in {1, 2}}

\* the feeds return each article at most once
DeliverInputs ==
    {arts \in SeqsUpTo(DeliverPool, Cardinality(DeliverPool)) :
        \A i, j \in 1..Len(arts) : arts[i].link = arts[j].link => i = j}

DeliverFrame == UNCHANGED <<batchVars, storeVars, runVars, pushVars, fetchVars, peerVars, schedVars>>

DeliverNext ==
    \/ \E arts \in DeliverInputs : Run(arts, FALSE, FALSE)
    \/ FetchArticlesContent
    \/ RunSummarize
    \/ run.pc = "summarizing" /\ ForArticle /\ DeliverFrame
    \/ GenerateSummary("ok") /\ DeliverFrame
    \/ TranslateTitle("ok") /\ DeliverFrame
    \/ TranslateSummary("ok") /\ DeliverFrame
    \/ RunSummarized
    \/ RunSave
    \/ RunPush
    \/ run.pc = "pushing" /\ (\E o \in PostOutcomes : Post(o))
          /\ UNCHANGED <<storeVars, limiterVars, summVars, runVars, fetchVars, peerVars, schedVars>>
    \/ RunReturn

DeliverSpec == RunInit /\ [][DeliverNext]_vars

\* the feed offering every article
FullFeed == [u \in 1..2 |-> CHOOSE a \in DeliverPool : a.link = u]

\* the same where the pipeline keeps going, runs over the full feed are made
\* again and again, and the webhook does not refuse for ever: a post that can
\* be made again and again is acknowledged at some time
DeliverFairSpec ==
    /\ DeliverSpec
    /\ WF_vars(DeliverNext)
    /\ SF_vars(Run(FullFeed, FALSE, FALSE))
    /\ SF_vars(run.pc = "pushing" /\ Post("ok")
                 /\ UNCHANGED <<storeVars, limiterVars, summVars, runVars, fetchVars, peerVars, schedVars>>)


-----------------------------------------------------------------------------
(* Properties of the batch packer (BatchSpec) *)

RECURSIVE SumEstimates(_)
SumEstimates(b) ==
    IF b = <<>> THEN 0
    ELSE _estimate_article_length(Head(b)) + SumEstimates(Tail(b))

Oversized(article) ==
    _estimate_article_length(article) > MAX_CONTENT_LENGTH - HEADER_RESERVE

\* C3: the batches returned by _create_batches, concatenated in order, are the
\* input list (every item in exactly one batch, order kept); no batch is empty,
\* and an empty input gives no batches.
C3_BatchesPartitionInput ==
    packed =>
        /\ Flatten(batches) = articles
        /\ \A i \in 1..Len(batches) : batches[i] # <<>>
        /\ (articles = <<>> => batches = <<>>)

C3_Witness ==
    /\ packed
    /\ Len(batches) >= 2
    /\ \E i \in 1..Len(batches) : Len(batches[i]) >= 2

\* C4: every batch has HEADER_RESERVE + the sum of its items' estimates
\* <= MAX_CONTENT_LENGTH, unless it is one item whose own estimate exceeds
\* MAX_CONTENT_LENGTH - HEADER_RESERVE; such an item is always alone in its
\* batch, and every such item of the input is in the output.
C4_BatchesWithinLimit ==
    packed =>
        /\ \A i \in 1..Len(batches) :
              \/ HEADER_RESERVE + SumEstimates(batches[i]) <= MAX_CONTENT_LENGTH
              \/ Len(batches[i]) = 1 /\ Oversized(batches[i][1])
        /\ \A i \in 1..Len(batches) : \A j \in 1..Len(batches[i]) :
              Oversized(batches[i][j]) => Len(batches[i]) = 1
        /\ Cardinality({k \in 1..Len(articles) : Oversized(articles[k])})
             = Cardinality({i \in 1..Len(batches) :
                               Len(batches[i]) = 1 /\ Oversized(batches[i][1])})

C4_Witness ==
    /\ packed
    /\ \E i \in 1..Len(batches) : Len(batches[i]) = 1 /\ Oversized(batches[i][1])
    /\ \E i \in 1..Len(batches) :
          /\ Len(batches[i]) >= 2
          /\ HEADER_RESERVE + SumEstimates(batches[i]) = MAX_CONTENT_LENGTH

-----------------------------------------------------------------------------
(* Properties of the store (StoreSpec) *)

RowsOf(d, h) == {r \in d : r.url_hash = h}

\* C5: mark_as_processed on an article whose URL already has a row leaves that
\* row as it was (the first call's values, also when the summary differs) and
\* exactly one row for the hash; on a URL that has none it leaves exactly the
\* row of this call; either way it returns True.
C5_RecordIdempotent ==
    [][(st_op'.op = "mark_as_processed" /\ MarkAsProcessed(st_op'.article)
          /\ StoreFrame) =>
            LET a      == st_op'.article
                h      == _hash_url(a.link)
                before == RowsOf(db, h)
                after  == RowsOf(db', h)
            IN  /\ st_op'.ret = TRUE
                /\ Cardinality(after) = 1
                /\ before # {} => after = before
                /\ before = {} => after = {RowOf(a, now)}]_vars

\* a second call, with another summary, has returned True and the row holds
\* the first summary
C5_Witness ==
    /\ st_op.op = "mark_as_processed"
    /\ st_op.ret = TRUE
    /\ \E r \in db : r.url = st_op.article.link
                      /\ r.summary # st_op.article.summary

\* C6: once mark_as_processed has returned True for x, and until a cleanup or
\* a reset removes x's row, is_processed(x) is true and
\* filter_unprocessed(.., force = False) omits x, in this instance and in every
\* Storage constructed later over the same database.
C6_RecordedStaysKnown ==
    \A u \in Urls :
        _hash_url(u) \in recorded =>
            /\ is_processed(u, processed_urls)
            /\ \A a \in FilterPool :
                  a.link = u => filter_unprocessed(<<a>>, FALSE, processed_urls) = <<>>
            /\ (st_op.op = "filter_unprocessed" /\ ~st_op.force) =>
                  \A i \in 1..Len(st_op.out) : st_op.out[i].link # u
            /\ (st_op.op = "is_processed" /\ st_op.url = u) => st_op.ret = TRUE

\* a Storage constructed after a record, the row still there
C6_Witness ==
    /\ st_op.op = "init"
    /\ recorded # {}
    /\ processed_urls = recorded

\* C7: filter_unprocessed(items, False) returns the subsequence of items whose
\* hash is not in the cache, in input order; filter_unprocessed(items, True)
\* returns items; neither changes the cache or the table.
C7_FilterIsSubsequence ==
    [][(st_op'.op = "filter_unprocessed"
          /\ FilterUnprocessed(st_op'.arts, st_op'.force) /\ StoreFrame) =>
            /\ st_op'.out =
                  IF st_op'.force THEN st_op'.arts
                  ELSE SelectSeq(st_op'.arts,
                          LAMBDA a : _hash_url(a.link) \notin processed_urls)
            /\ db' = db
            /\ processed_urls' = processed_urls]_vars

\* a filter that dropped the first of two articles and kept the second
C7_Witness ==
    /\ st_op.op = "filter_unprocessed"
    /\ ~st_op.force
    /\ Len(st_op.arts) = 2
    /\ st_op.out = <<st_op.arts[2]>>

-----------------------------------------------------------------------------
(* Properties of the limiter (LimiterSpec) *)

\* C8: on the first use of the limiter on a calendar day the counter restarts
\* from zero, also in a process that keeps one limiter across midnight: what
\* record_request counts and stores under a date is the number of requests
\* recorded on that date.
C8_DailyCounterResetsEachDay ==
    [][(RecordRequest /\ UNCHANGED now /\ LimiterFrame) =>
          /\ daily_count' = recorded_on'[Today]
          /\ quota_file'.date = Today
          /\ quota_file'.count = recorded_on'[Today]]_vars

\* C9: a limiter constructed on date D over the persisted state has as daily
\* count the number of requests recorded on D (so at the cap none remain and
\* can_make_request is false), and the file then holds that count under D; for
\* a date with no requests that is 0.
C9_ReloadSeesRecordedCount ==
    [][(RateLimiterInit /\ UNCHANGED now /\ LimiterFrame) =>
          /\ daily_count' = recorded_on[Today]
          /\ quota_file' = [exists |-> TRUE, date |-> Today,
                            count |-> recorded_on[Today]]
          /\ recorded_on[Today] >= max_daily =>
                /\ get_remaining_quota(daily_count') = 0
                /\ ~can_make_request(daily_count', request_times', now).ret]_vars

\* C10: record_request appends the current instant to request_times, adds
\* exactly 1 to daily_count, and leaves the quota file holding the new count
\* under the current date, so that a limiter constructed right after it loads
\* the same count; at every moment the file's count is the one in memory.
C10_RecordRequestPersists ==
    /\ [](quota_file.exists /\ quota_file.count = daily_count)
    /\ [][(RecordRequest /\ UNCHANGED now /\ LimiterFrame) =>
            /\ request_times' = Append(request_times, now)
            /\ daily_count' = daily_count + 1
            /\ quota_file' = [exists |-> TRUE, date |-> Today,
                              count |-> daily_count + 1]
            /\ _load_quota(quota_file', now, TRUE, TRUE).daily_count = daily_count']_vars

C10_Witness ==
    /\ rl_op.op = "record_request"
    /\ daily_count = 2
    /\ Len(request_times) = 2
    /\ request_times[1] < request_times[2]
    /\ quota_file.date = Today

-----------------------------------------------------------------------------
(* Properties of the summarizer (SummSpec) *)

\* calls of generate_content in the 60 seconds that end with the i-th call
IssuedInWindow(i) ==
    Cardinality({j \in 1..Len(issued) :
                    issued[j] <= issued[i] /\ issued[i] - issued[j] < WINDOW})

\* calls of generate_content on date d
IssuedOn(d) == Cardinality({j \in 1..Len(issued) : DateOf(issued[j]) = d})

\* C2: the requests issued to the API within any trailing 60-second window
\* never exceed the per-minute cap, and those issued on one calendar date never
\* exceed the daily cap.
C2_IssuedWithinCaps ==
    \A i \in 1..Len(issued) :
        /\ IssuedInWindow(i) <= max_rpm
        /\ IssuedOn(DateOf(issued[i])) <= max_daily

-----------------------------------------------------------------------------
(* Properties of the pipeline (RunSpec) *)

\* C1: across any sequence of run() invocations with force=false, a crash at
\* any point of a run and a restart included, each item (identified by the
\* hash of its URL) is content-fetched and enriched at most once.
C1_ProcessedAtMostOnce ==
    \A u \in Urls : times_processed[u] <= 1

-----------------------------------------------------------------------------
(* Properties of can_make_request and wait_if_needed (LimiterSpec) *)

\* the recorded instants of a list that are less than 60 seconds before t
WindowAt(times, t) == {i \in 1..Len(times) : t - times[i] < WINDOW}

\* C11: can_make_request returns true if and only if the daily count is below
\* the daily cap and fewer than max_rpm recorded instants t have now - t < 60;
\* so after max_rpm record_request calls within 60 seconds it returns false.
C11_CanRequestIff ==
    [][(rl_op'.op = "can_make_request" /\ CanMakeRequest /\ UNCHANGED now
          /\ LimiterFrame) =>
            (rl_op'.ret <=>
                (/\ daily_count < max_daily
                 /\ Cardinality(WindowAt(request_times, now)) < max_rpm))]_vars

C11_Witness ==
    /\ rl_op.op = "can_make_request"
    /\ ~rl_op.ret
    /\ daily_count < max_daily
    /\ Cardinality(WindowAt(request_times, now)) = max_rpm

\* C12: when the daily cap is exhausted at the call, wait_if_needed returns
\* without sleeping, whatever the per-minute window holds.
C12_NoWaitWhenDailyExhausted ==
    [][(rl_op'.op = "wait_if_needed" /\ WaitIfNeeded /\ LimiterFrame
          /\ daily_count >= max_daily) =>
            (rl_op'.sleeps = <<>> /\ now' = now)]_vars

C12_Witness ==
    /\ rl_op.op = "wait_if_needed"
    /\ rl_op.sleeps = <<>>
    /\ daily_count >= max_daily
    /\ Cardinality(WindowAt(request_times, now)) >= max_rpm

\* C13: when the daily cap is not exhausted (and max_rpm >= 1), wait_if_needed
\* returns after finitely many sleeps, and can_make_request is true at the
\* moment it returns.
C13_WaitEndsAllowed ==
    [][(rl_op'.op = "wait_if_needed" /\ WaitIfNeeded /\ LimiterFrame
          /\ daily_count < max_daily /\ max_rpm >= 1) =>
            (/\ Len(rl_op'.sleeps) <= Len(request_times)
             /\ can_make_request(daily_count', request_times', now').ret
             /\ Cardinality(WindowAt(request_times', now')) < max_rpm)]_vars

C13_Witness ==
    /\ rl_op.op = "wait_if_needed"
    /\ Len(rl_op.sleeps) >= 1
    /\ daily_count < max_daily

\* every sleep of the list, taken from instant t on: its length and its range
RECURSIVE SleepsAsStated(_, _, _)
SleepsAsStated(times, t, sleeps) ==
    IF sleeps = <<>> THEN TRUE
    ELSE LET inw    == {times[i] : i \in WindowAt(times, t)}
             oldest == CHOOSE x \in inw : \A y \in inw : x <= y
             d      == Head(sleeps)
         IN  /\ inw # {}
             /\ d = WINDOW - (t - oldest) + 1
             /\ d > 0
             /\ d <= WINDOW + 1
             /\ SleepsAsStated(times, t + d, Tail(sleeps))

\* C14: whenever wait_if_needed sleeps, the duration is
\* 60 - (now - oldest in-window instant) + 1, which is > 0 and <= 61.
C14_SleepDuration ==
    [][(rl_op'.op = "wait_if_needed" /\ WaitIfNeeded /\ LimiterFrame) =>
            SleepsAsStated(request_times, now, rl_op'.sleeps)]_vars

C14_Witness ==
    /\ rl_op.op = "wait_if_needed"
    /\ Len(rl_op.sleeps) >= 1
    /\ \E i \in 1..Len(rl_op.sleeps) : rl_op.sleeps[i] < WINDOW + 1

-----------------------------------------------------------------------------
(* Properties of the limiter when the quota file fails (LimiterFaultSpec) *)

C16_CorruptQuotaStartsAtZero ==
    [][(rl_op'.op = "init" /\ (\E io_w \in BOOLEAN : RateLimiterInitIO(FALSE, io_w))
          /\ UNCHANGED now /\ LimiterFrame) =>
            (/\ ~rl_op'.raised
             /\ daily_count' = 0
             /\ request_times' = <<>>
             /\ quota_file' = quota_file)]_vars

C16_Witness ==
    /\ rl_op.op = "init"
    /\ quota_fault = "load"
    /\ quota_file.exists /\ quota_file.date = Today /\ quota_file.count > 0
    /\ daily_count = 0

-----------------------------------------------------------------------------
(* Properties of the time-range query and of cleanup (StoreSpec) *)

\* C17: get_articles_by_time_range(start, end), with bounds in the form
\* push_only passes, returns exactly the stored records whose publication
\* instant t has start <= t <= end, ordered by publication instant descending.
C17_QueryByTimeRange ==
    [][(st_op'.op = "get_articles_by_time_range"
          /\ GetArticlesByTimeRange(st_op'.start_time, st_op'.end_time)
          /\ StoreFrame) =>
            LET out    == st_op'.out
                wanted == {r \in db :
                             /\ st_op'.start_time <= ParseIso(r.published_at)
                             /\ ParseIso(r.published_at) <= st_op'.end_time}
            IN  /\ Len(out) = Cardinality(wanted)
                /\ {out[i].link : i \in 1..Len(out)} = {r.url : r \in wanted}
                /\ \A i, j \in 1..Len(out) :
                      i < j => out[i].published >= out[j].published]_vars

\* C20: cleanup_old_records(days) deletes exactly the rows whose processing
\* instant is more than days days old and returns their number; when it
\* returns the cache is the set of hashes still stored, so a deleted item is
\* unprocessed again and a retained one is processed.
C20_CleanupDeletesOld ==
    [][(st_op'.op = "cleanup_old_records" /\ CleanupOldRecords(st_op'.days)
          /\ StoreFrame) =>
            LET old == {r \in db :
                          now - r.processed_at > st_op'.days * SECONDS_PER_DAY}
            IN  /\ db' = db \ old
                /\ st_op'.n = Cardinality(old)
                /\ processed_urls' = {r.url_hash : r \in db'}
                /\ \A r \in old : ~is_processed(r.url, processed_urls')
                /\ \A r \in db' : is_processed(r.url, processed_urls')]_vars

C20_Witness ==
    /\ st_op.op = "cleanup_old_records"
    /\ st_op.n >= 1
    /\ db # {}

-----------------------------------------------------------------------------
(* Properties of the store when sqlite3 fails (StoreFaultSpec) *)

C19_FailureSemantics ==
    [][/\ (st_op'.op = "mark_as_processed"
             /\ MarkAsProcessedIO(st_op'.article, FALSE) /\ StoreFrame) =>
               (/\ st_op'.ret = FALSE
                /\ db' = db
                /\ processed_urls' = processed_urls)
       /\ (st_op'.op = "get_articles_by_time_range"
             /\ GetArticlesByTimeRangeIO(st_op'.start_time, st_op'.end_time, FALSE)
             /\ StoreFrame) =>
               st_op'.out = <<>>
       /\ (st_op'.op = "init" /\ StorageInitIO(TRUE, FALSE) /\ StoreFrame) =>
               (/\ processed_urls' = {}
                /\ \A u \in Urls : ~is_processed(u, processed_urls'))]_vars

C19_Witness ==
    /\ st_op.op = "mark_as_processed"
    /\ ~st_op.ret
    /\ db # {}
    /\ _hash_url(st_op.article.link) \notin processed_urls

\* C21: after reset_database returns true the table holds no row and the
\* cache is empty, so that is_processed is false for every URL; when it fails
\* it returns false and leaves the cache as it was.
C21_ResetClearsAll ==
    [][(st_op'.op = "reset_database"
          /\ (\E io \in BOOLEAN : ResetDatabaseIO(io)) /\ StoreFrame) =>
            IF st_op'.ret
            THEN /\ db' = {}
                 /\ processed_urls' = {}
                 /\ \A u \in Urls : ~is_processed(u, processed_urls')
            ELSE processed_urls' = processed_urls]_vars

\* a reset that failed over a store that knows an article
C21_Witness ==
    /\ st_op.op = "reset_database"
    /\ ~st_op.ret
    /\ processed_urls # {}
    /\ db # {}

-----------------------------------------------------------------------------
(* Properties of the packer on items of one size (BatchSpec) *)

\* every item of the list has the estimate of the first one
SameEstimate(arts) ==
    \A i \in 1..Len(arts) :
        _estimate_article_length(arts[i]) = _estimate_article_length(arts[1])

\* C23: for items that all have one estimate e, 0 < e <= MAX_CONTENT_LENGTH -
\* HEADER_RESERVE, every batch but the last holds exactly
\* (MAX_CONTENT_LENGTH - HEADER_RESERVE) \div e items and the last holds at
\* least one and at most that many; for e = 400 that is 9.
C23_UniformBatchSize ==
    (packed /\ articles # <<>> /\ SameEstimate(articles)) =>
        LET e == _estimate_article_length(articles[1])
            k == (MAX_CONTENT_LENGTH - HEADER_RESERVE) \div e
        IN  (0 < e /\ e <= MAX_CONTENT_LENGTH - HEADER_RESERVE) =>
               /\ \A b \in 1..(Len(batches) - 1) : Len(batches[b]) = k
               /\ Len(batches) >= 1
               /\ Len(batches[Len(batches)]) \in 1..k
               /\ e = 400 => k = 9

\* items of estimate 400 packed into full batches of nine and a shorter last one
C23_Witness ==
    /\ packed
    /\ Len(articles) > 18
    /\ SameEstimate(articles)
    /\ _estimate_article_length(articles[1]) = 400
    /\ Len(batches) = 3
    /\ Len(batches[1]) = 9
    /\ Len(batches[3]) < 9

-----------------------------------------------------------------------------
(* Properties of the pusher (PushSpec) *)

\* C22: the content _format_message produces for a batch is never longer than
\* MAX_CONTENT_LENGTH: formatted content that is longer is replaced by its
\* first MAX_CONTENT_LENGTH - 3 characters followed by '...', and any other is
\* left as it is; so no message posted for a batch is longer either.
C22_ContentWithinLimit ==
    /\ push.pc = "post" =>
          LET content == content_parts(batches[push.i], push.i, Len(batches))
          IN  /\ TextLen(push.message) <= MAX_CONTENT_LENGTH
              /\ content > MAX_CONTENT_LENGTH =>
                    push.message = [body |-> MAX_CONTENT_LENGTH - 3, tail |-> 3]
              /\ content <= MAX_CONTENT_LENGTH =>
                    push.message = [body |-> content, tail |-> 0]
    /\ \A m \in sent : m.len <= MAX_CONTENT_LENGTH

\* a batch whose formatted content is over the limit has been cut and posted
C22_Witness ==
    /\ push.pc = "post"
    /\ push.attempt > 0
    /\ content_parts(batches[push.i], push.i, Len(batches)) > MAX_CONTENT_LENGTH
    /\ push.message.tail = 3
    /\ \E m \in sent : m.len = MAX_CONTENT_LENGTH

\* C24: no message posted by push_articles holds more than batch_size
\* articles.
C24_BatchSizeRespected == \A m \in sent : m.n <= batch_size

-----------------------------------------------------------------------------
(* Properties of _send_batch (PushFairSpec) *)

\* what holds of a _send_batch call, running or returned
SendAsStated(send) ==
    /\ send.posts <= pusher_max_retries
    /\ send.acks <= 1
    /\ send.acks = 1 => send.returned
    /\ send.returned => (send.ret <=> send.acks = 1)
    /\ send.returned => send.posts >= 1
    /\ (~send.returned /\ push.pc = "post") => send.posts = push.attempt
    /\ Len(send.sleeps) =
          (send.posts - send.acks) - (IF send.returned /\ send.acks = 0 THEN 1 ELSE 0)
    /\ \A k \in 1..Len(send.sleeps) : send.sleeps[k] = 2 ^ (k - 1)

\* C27: _send_batch posts a batch at most max_retries times, makes no post
\* after one that the webhook acknowledged, returns true exactly when a post
\* was acknowledged, sleeps 2^k seconds after failed attempt k (from 0) except
\* after the last one, and every call returns.
C27_SendBatchRetries ==
    /\ [] SendAsStated(push.send)
    /\ [][(push.pc = "post" /\ push'.pc = "post" /\ push'.i = push.i)
             => now' = now + 2 ^ push.attempt]_vars
    /\ \A k \in 1..(MaxPush + 1) :
          (push.pc = "post" /\ push.i = k) ~> (push.pc = "return" \/ push.i > k)

\* a call that gave up after max_retries failed posts, having slept after each
\* but the last
C27_Witness ==
    /\ push.send.returned
    /\ ~push.send.ret
    /\ push.send.posts = pusher_max_retries
    /\ Len(push.send.sleeps) = pusher_max_retries - 1
    /\ push.pc = "post"

-----------------------------------------------------------------------------
(* Properties of summarize_articles (EnrichSpec) *)

\* the text _generate_summary works on
ContentOf(article) ==
    StrOr(StrOr(article.content, article.description), article.title)

\* the article with the fallback text as summary and no translations
PlainFallback(article) ==
    [article EXCEPT !.summary = _create_fallback_text(article),
                    !.title_zh = 0, !.summary_zh = 0]

\* r is article a with nothing but summary and translations set
SameArticle(r, a) ==
    r = [a EXCEPT !.summary = r.summary, !.title_zh = r.title_zh,
                  !.summary_zh = r.summary_zh]

\* one result per article handled so far, in input order
OneResultEach(s) ==
    /\ s.pc \in {"loop", "gen", "title", "summary_zh"} =>
          Len(s.results) = s.i - 1
    /\ s.pc = "return" => Len(s.results) = Len(s.arts)
    /\ Len(s.results) <= Len(s.arts)
    /\ \A k \in 1..Len(s.results) : SameArticle(s.results[k], s.arts[k])

\* C25 as stated: one result per input article in input order, and an article
\* for which the limiter refused a request or the API raised has the fallback
\* summary and empty translated title and summary.
C25_FallbackOnAnyError ==
    [][/\ OneResultEach(sm')
       /\ (sm.pc = "summary_zh" /\ sm'.pc = "loop"
             /\ (sm.api_error \/ sm.refused)) =>
               sm'.results[sm.i] = PlainFallback(sm.arts[sm.i])]_vars

\* C25: summarize_articles gives one result per input article, in input
\* order, and every call returns a list.  An article reached while the limiter
\* refuses a request gets the fallback summary and empty translations; of any
\* other article the summary is the API's or, when the content is too short or
\* no attempt succeeded, the fallback text, and each translation is the API's
\* or empty, whatever happened to the summary; a call made with no daily
\* quota left gives every article the fallback summary.
C25_OneResultPerArticle ==
    [][/\ OneResultEach(sm')
       /\ (sm.pc = "idle" /\ sm'.pc = "return") =>
             /\ get_remaining_quota(daily_count) <= 0
             /\ \A k \in 1..Len(sm'.arts) :
                   sm'.results[k] = PlainFallback(sm'.arts[k])
       /\ (sm.pc = "loop" /\ sm'.pc = "loop") =>
             /\ ~can_make_request(daily_count, request_times, now).ret
             /\ sm'.results[sm.i] = PlainFallback(sm.arts[sm.i])
       /\ (sm.pc = "summary_zh" /\ sm'.pc = "loop") =>
             LET a == sm.arts[sm.i]
                 r == sm'.results[sm.i]
             IN  /\ r.summary \in {SummaryLen, _create_fallback_text(a)}
                 /\ ContentOf(a) < MIN_CONTENT =>
                       r.summary = _create_fallback_text(a)
                 /\ r.title_zh \in {0, TranslationLen(a.title)}
                 /\ r.summary_zh \in {0, TranslationLen(r.summary)}
                 /\ (~sm.api_error /\ ~sm.refused /\ ContentOf(a) >= MIN_CONTENT
                       /\ sm.cur.summary # SummaryLen) =>
                          \* every attempt returned too short a text
                          r.summary = _create_fallback_text(a)
       /\ sm.pc \in {"gen", "title", "summary_zh"} =>
             sm'.pc \in {"gen", "title", "summary_zh", "loop"}]_vars

\* a returned call in which generate_content raised for the first article, which
\* has the fallback summary and a translated title, and the second was handled
C25_Witness ==
    /\ sm.pc = "return"
    /\ Len(sm.results) = 2
    /\ ContentOf(sm.arts[1]) >= MIN_CONTENT
    /\ sm.results[1].summary = _create_fallback_text(sm.arts[1])
    /\ sm.results[1].title_zh # 0
    /\ Len(issued) >= max_retries + 2

\* C30: while daily quota remains, no article is given the fallback summary
\* merely because max_rpm requests were made in the last 60 seconds: an
\* article is refused at the head of the loop only when the daily cap is
\* exhausted.
C30_NoFallbackOnRpm ==
    [][(sm.pc = "loop" /\ sm'.pc = "loop"
          /\ Len(sm'.results) = Len(sm.results) + 1) =>
            daily_count >= max_daily]_vars

-----------------------------------------------------------------------------
(* Properties of fetch_articles_content (FetchSpec) *)

\* a is article b with its content set to a page text or to the fallback
ContentFilled(a, b) ==
    \/ a = [b EXCEPT !.content = PageLen]
    \/ a = [b EXCEPT !.content = StrOr(b.description, b.title)]

\* no article is collected twice, and at the return every one was
CollectedOnce(c) ==
    /\ \A i, j \in 1..Len(c.order) : c.order[i] = c.order[j] => i = j
    /\ \A j \in 1..Len(c.order) : c.order[j] \in 1..Len(c.input)
    /\ c.pc = "return" =>
          /\ Len(Results(c)) = Len(c.input)
          /\ \A k \in 1..Len(c.input) : \E j \in 1..Len(c.order) : c.order[j] = k
          /\ \A j \in 1..Len(c.order) :
                ContentFilled(Results(c)[j], c.input[c.order[j]])

\* C26: in every interleaving of the workers fetch_articles_content returns
\* each input article exactly once, so its result is a permutation of its
\* input; a worker whose page yields nothing or raises leaves its own article
\* with its description, or else its title, as content, changes no other
\* article, and the call goes on.
C26_ResultsArePermutation ==
    /\ [] CollectedOnce(cf)
    /\ [][\A k \in 1..MaxFetch :
            /\ \A o \in {"none", "raise"} :
                 (WorkerFinish(k, o) /\ FetchFrame) =>
                    /\ cf'.articles[k].content =
                          StrOr(cf.input[k].description, cf.input[k].title)
                    /\ cf'.pc = "collect"
            /\ \A o \in FetchOutcomes :
                 (WorkerFinish(k, o) /\ FetchFrame) =>
                    \A j \in 1..Len(cf.articles) :
                        j # k => cf'.articles[j] = cf.articles[j]]_vars

\* a returned call that collected its three articles out of input order, one of
\* them with a page text and one with the fallback
C26_Witness ==
    /\ cf.pc = "return"
    /\ Len(cf.order) = 3
    /\ cf.order[1] = 3
    /\ cf.order[2] = 1
    /\ cf.articles[1].content = PageLen
    /\ cf.articles[3].content = StrOr(cf.input[3].description, cf.input[3].title)
    /\ cf.articles[3].content # PageLen


-----------------------------------------------------------------------------
(* Properties of run() with delivery (DeliverSpec, DeliverFairSpec) *)

\* the steps run() takes from one stage to the next
StageSteps ==
    { <<"idle", "content">>,          \* filter_unprocessed left new articles
      <<"idle", "pushing">>,          \* empty feed: the no-articles message
      <<"content", "summarize">>,     \* fetch_articles_content
      <<"summarize", "summarizing">>, \* summarize_articles
      <<"summarizing", "save">>,
      <<"save", "push">>,             \* save_articles
      <<"push", "pushing">>,          \* push_articles: batches, then posts
      <<"pushing", "idle">> }

\* the article with link u is in the table and in the cache
IsRecorded(u, d, cache) ==
    /\ _hash_url(u) \in cache
    /\ \E r \in d : r.url_hash = _hash_url(u)

C29_RecordedEventuallyAccepted ==
    []<>(run.pc = "idle" /\ sm.runs < MaxRuns /\ push.enabled)
        => \A u \in Links(FullFeed) :
              [](IsRecorded(u, db, processed_urls) => <>(u \in accepted))


-----------------------------------------------------------------------------
(* Properties of where the packer closes a batch (BatchSpec) *)

\* C33: _create_batches closes a batch only when the next item would overflow
\* it: for two consecutive batches B and B', HEADER_RESERVE + the estimates of
\* B + the estimate of the first item of B' exceeds MAX_CONTENT_LENGTH.
C33_ClosedOnlyOnOverflow ==
    packed =>
        \A i \in 1..(Len(batches) - 1) :
            HEADER_RESERVE + SumEstimates(batches[i])
               + _estimate_article_length(batches[i + 1][1]) > MAX_CONTENT_LENGTH

\* a batch with room left was closed because the next item, which is not over
\* the limit alone, did not fit
C33_Witness ==
    /\ packed
    /\ \E i \in 1..(Len(batches) - 1) :
          /\ Len(batches[i]) >= 2
          /\ HEADER_RESERVE + SumEstimates(batches[i]) < MAX_CONTENT_LENGTH
          /\ ~Oversized(batches[i + 1][1])


-----------------------------------------------------------------------------
(* Properties of the cache against the table (StoreFaultSpec) *)

\* the identifiers that have a row in the table
StoredHashes(d) == {r.url_hash : r \in d}

\* one operation of the store during which every sqlite3 access worked
StepWithoutFailure ==
    \/ StorageInitIO(TRUE, TRUE)
    \/ \E a \in FilterPool : MarkAsProcessedIO(a, TRUE)
    \/ \E u \in Urls : IsProcessed(u)
    \/ \E arts \in FilterInputs, force \in BOOLEAN : FilterUnprocessed(arts, force)
    \/ \E days \in CleanupDays : CleanupOldRecordsIO(days, TRUE, TRUE)
    \/ ResetDatabaseIO(TRUE)
    \/ \E start_time, end_time \in QueryTimes :
          GetArticlesByTimeRangeIO(start_time, end_time, TRUE)

\* C34: after any sequence of store operations in one process, failed ones
\* included, every identifier in the cache has a row in the table; and the
\* cache equals the stored identifiers for as long as no operation failed: it
\* does so at the start, and an operation without failure keeps it so.
C34_CacheWithinTable ==
    /\ [](processed_urls \subseteq StoredHashes(db))
    /\ processed_urls = StoredHashes(db)
    /\ [][(processed_urls = StoredHashes(db) /\ StepWithoutFailure)
             => processed_urls' = StoredHashes(db')]_vars

\* after a failure the cache knows one stored article and not the other
C34_Witness ==
    /\ processed_urls # {}
    /\ processed_urls # StoredHashes(db)
    /\ processed_urls \subseteq StoredHashes(db)
    /\ ~st_op.raised


-----------------------------------------------------------------------------
(* Properties of the limiter as the summarizer drives it (EnrichSpec) *)

\* C35: used as the summarizer uses it, one thread calling record_request only
\* after a can_make_request that returned true, the limiter never holds a
\* daily count above max_daily nor more than max_rpm instants of the last 60
\* seconds, and the quota file it leaves never holds a count above max_daily.
C35_LimiterStateWithinCaps ==
    /\ daily_count <= max_daily
    /\ Len(InWindow(request_times, now)) <= max_rpm
    /\ quota_file.count <= max_daily

\* both caps reached at once: the day's last request is the second of its minute
C35_Witness ==
    /\ daily_count = max_daily
    /\ Len(InWindow(request_times, now)) = max_rpm
    /\ Len(issued) >= max_daily


-----------------------------------------------------------------------------
(* Properties of the retry loop of _generate_summary (EnrichSpec) *)

\* C37: _generate_summary makes at most max_retries passes of its loop for one
\* article, each issuing at most one summarization call, and always returns a
\* text: the summary of a call that returned a long enough one, else, after
\* the last pass, the fallback text; an exception raised in a pass, the
\* limiter's "API quota limit reached" included, is followed by the next pass
\* or by the fallback and the loop of summarize_articles goes on to the title.
C37_GenerateSummaryReturns ==
    /\ [](sm.pc = "gen" => sm.attempt \in 0..(max_retries - 1))
    /\ [][(sm.pc = "gen" /\ sm' # sm) =>
            /\ Len(issued') <= Len(issued) + 1
            /\ \/ /\ sm'.pc = "gen"
                  /\ sm'.attempt = sm.attempt + 1
                  /\ sm'.cur = sm.cur
               \/ /\ sm'.pc = "title"
                  /\ sm'.cur.summary = SummaryLen
                  /\ Len(issued') = Len(issued) + 1
               \/ /\ sm'.pc = "title"
                  /\ sm.attempt = max_retries - 1
                  /\ sm'.cur.summary = _create_fallback_text(sm.cur)
            /\ sm'.results = sm.results
            /\ sm'.i = sm.i]_vars

\* a pass used the day's last request for a summary that was too short, the
\* limiter refused the next pass, and the fallback text was returned
C37_Witness ==
    /\ sm.pc = "title"
    /\ sm.refused
    /\ daily_count = max_daily
    /\ sm.cur.summary = _create_fallback_text(sm.cur)
    /\ sm.cur.content >= MIN_CONTENT


-----------------------------------------------------------------------------
(* Properties of the counts of push_articles (PushSpec) *)

\* the number of articles in the first n batches
RECURSIVE ArticlesIn(_, _)
ArticlesIn(bs, n) == IF n = 0 THEN 0 ELSE Len(bs[n]) + ArticlesIn(bs, n - 1)

\* C36: push_articles, enabled and given a non-empty list, posts the batches in
\* order, going on to the next batch whether _send_batch returned True or
\* False; a batch is counted as success when a post of it was acknowledged and
\* as failed when it used up its retries, and the counts returned satisfy
\* success + failed = total = len(articles).
C36_EveryBatchCounted ==
    /\ [](push.pc = "post" =>
             /\ push.i \in 1..Len(batches)
             /\ push.stats.success + push.stats.failed
                   = ArticlesIn(batches, push.i - 1))
    /\ []((push.pc = "return" /\ push.enabled /\ push.stats.total > 0) =>
             /\ push.i = Len(batches)
             /\ push.stats.total = Len(articles)
             /\ push.stats.success + push.stats.failed = push.stats.total)
    /\ [][(push.pc = "post" /\ push' # push) =>
            LET n    == Len(batches[push.i])
                done == push'.send.returned
            IN  /\ done =>
                     /\ push'.pc = IF push.i < Len(batches) THEN "post" ELSE "return"
                     /\ push'.i = IF push.i < Len(batches) THEN push.i + 1 ELSE push.i
                     /\ push'.send.ret <=> push'.send.acks = 1
                     /\ push'.send.ret =>
                          /\ push'.stats.success = push.stats.success + n
                          /\ push'.stats.failed = push.stats.failed
                     /\ ~push'.send.ret =>
                          /\ push'.send.posts = pusher_max_retries
                          /\ push'.stats.failed = push.stats.failed + n
                          /\ push'.stats.success = push.stats.success
                /\ ~done =>
                     /\ push'.pc = "post"
                     /\ push'.i = push.i
                     /\ push'.stats = push.stats]_vars

\* a batch failed, a later one was acknowledged, and both were counted
C36_Witness ==
    /\ push.pc = "return"
    /\ push.stats.failed > 0
    /\ push.stats.success > 0
    /\ push.send.ret
    /\ push.stats.success + push.stats.failed = Len(articles)


-----------------------------------------------------------------------------
(* Properties of the estimate against the rendered message (BatchSpec) *)

\* C38: for every batch the rendered content, before any cut, is no longer
\* than HEADER_RESERVE + the estimates of its items; so _format_message cuts
\* the content only of a batch of one item whose estimate alone is over
\* MAX_CONTENT_LENGTH - HEADER_RESERVE.
C38_EstimateBoundsRendering ==
    packed =>
        \A b \in 1..Len(batches) :
            LET content == content_parts(batches[b], b, Len(batches))
                message == _format_message(batches[b], b, Len(batches))
            IN  /\ content <= HEADER_RESERVE + SumEstimates(batches[b])
                /\ message.tail # 0 =>
                      /\ Len(batches[b]) = 1
                      /\ Oversized(batches[b][1])
                /\ message.tail = 0 => message.body = content

\* one list gave a batch of one item that was cut and a batch of several
\* items that was not
C38_Witness ==
    /\ packed
    /\ \E b \in 1..Len(batches) :
          /\ Len(batches[b]) = 1
          /\ _format_message(batches[b], b, Len(batches)).tail = 3
    /\ \E b \in 1..Len(batches) :
          /\ Len(batches[b]) >= 2
          /\ _format_message(batches[b], b, Len(batches)).tail = 0
          /\ StrOr(batches[b][1].summary_zh, batches[b][1].summary)
                > MAX_SUMMARY_LENGTH


-----------------------------------------------------------------------------
(* Properties of the order of delivery (DeliverSpec) *)

\* the links of a list, in its order
LinksInOrder(arts) == [i \in 1..Len(arts) |-> arts[i].link]

\* C31: the articles of the batches posted in a run, taken batch after batch,
\* are in the order in which filter_unprocessed returned them.
C31_DeliveredInInputOrder ==
    (run.pc = "pushing" /\ push.pc = "post") =>
        LinksInOrder(Flatten(batches)) = LinksInOrder(run.new_articles)



-----------------------------------------------------------------------------
(* C32 (PeerSpec): two limiter instances over one quota file lose updates.   *)
(* record_request never reads the file again: each call persists the         *)
(* caller's own count plus one, whatever the file held, so the persisted     *)
(* count never exceeds the number of record_request() calls of the date and  *)
(* can be less than it.                                                      *)

\* C32: a record_request() of either instance persists that instance's own
\* count plus one, and the persisted count is at most the number of calls
C32_RecordOverwritesSharedCount ==
    /\ [](quota_file.count <= recorded_on[Today])
    /\ [][(recorded_on' # recorded_on /\ peer' = peer)
             => quota_file'.count = daily_count + 1]_vars
    /\ [][(recorded_on' # recorded_on /\ peer' # peer)
             => quota_file'.count = peer.daily_count + 1]_vars

\* both instances have recorded and the persisted count is less than the
\* number of calls
C32_Witness ==
    /\ Len(request_times) > 0
    /\ Len(peer.request_times) > 0
    /\ quota_file.date = Today
    /\ quota_file.count < recorded_on[Today]

-----------------------------------------------------------------------------
(* C39 (SchedSpec): successive runs of scheduled mode leave no gap.  prev is *)
(* the range of the last run that returned.  The job that follows it reads   *)
(* the saved timestamp, a naive datetime, and parse_time_range orders it     *)
(* against the aware datetime.now(pytz.UTC).                                 *)

\* C39: after a run that returned, the next job has a time range, and the
\* range of a run starts no later than the end of the previous run's range
C39_RangesWithoutGaps ==
    /\ ~sched.prev.none => sched.error # "range"
    /\ (sched.pc = "run" /\ ~sched.prev.none)
          => sched.range.start <= sched.prev.end

-----------------------------------------------------------------------------
(* C40 (SchedSpec): last_run.json is written only by the save_last_run()     *)
(* that follows a run() which returned; a job whose run() raised leaves it   *)
(* as it was and returns to the scheduler, which starts the next job.        *)

\* C40: the persisted timestamp changes only at the end of a job whose run()
\* returned, to the local time of that instant; a job that caught an exception
\* leaves it unchanged and ends, the scheduler being idle for the next trigger
C40_LastRunSavedOnlyAfterReturn ==
    /\ [](sched.error # "none" => sched.pc = "idle")
    /\ [][sched'.file # sched.file
            => /\ sched.pc = "run"
               /\ sched'.error = "none"
               /\ sched'.file = save_last_run(sched.file, now', sched.tz, TRUE)]_vars
    /\ [][sched'.raised > sched.raised
            => (sched'.file = sched.file /\ sched'.pc = "idle")]_vars

\* a run returned and saved its timestamp, then two jobs in a row caught an
\* exception: the second began after the first had raised
C40_Witness ==
    /\ sched.raised >= 2
    /\ ~sched.prev.none
    /\ sched.file.exists
    /\ sched.error # "none"


=============================================================================
